---------------------------- MODULE Spec2Model ----------------------------
(***************************************************************************)
(* A model of Project Sand (joshdon/ProjectSand): the packed-colour grid,  *)
(* the element rules and their primitives, the particle pool and the tick  *)
(* (updateGame), translated from scripts/elements.js, scripts/particles.js *)
(* and scripts/game.js.                                                    *)
(*                                                                         *)
(* Representation.                                                         *)
(*  - A 32 bit colour word 0xAABBGGRR is the pair <<alpha, rgb>> of its    *)
(*    top byte and its low 24 bits (the word would not fit a TLC integer). *)
(*  - A function of the code that draws random numbers or reads a float    *)
(*    is an operator that returns the SET of its possible outcomes, each   *)
(*    a record [st |-> machine state after, ret |-> returned value].       *)
(*  - The machine state threaded through those operators is the record     *)
(*    [grid, ps, threw, nReq, nFail, nInit, rnd, log, drawn]: the cell     *)
(*    buffer, the particle list, the exception thrown by the running       *)
(*    handler ("": none), the number of particles requested / refused and  *)
(*    of init callbacks run by it, the next entries of the random buffer   *)
(*    when a scenario fixes them (<<>>: any value may come), the events of *)
(*    the running handler and the colours drawn on the particle canvas.    *)
(*  - A handler runs to completion (JavaScript is single threaded): it is  *)
(*    one action.                                                          *)
(***************************************************************************)
EXTENDS Integers, Sequences, FiniteSets, TLC

VARIABLES
  width,               \* canvasConfig.js:24
  height,              \* canvasConfig.js:25
  gameImagedata32,     \* game.js:44       the grid
  saveGameImagedata32, \* game.js:47       the save buffer
  gamestateSaved,      \* game.js:48
  particles,           \* particles.js:756 the ParticleList and its Particles
  spigots,             \* spigots.js:39-40 SPIGOT_ELEMENTS and SPIGOT_SIZES
  threw,               \* the first exception that escaped a handler ("": none)
  nextElemIdx,         \* elements.js:62   __next_elem_idx
  call,                \* history: the last operation applied, with its result
  fpsSetting,          \* game.js:56       the frames per second of the menu
  lastLoop,            \* game.js:58       the time of the last mainLoop
  frameDebt,           \* game.js:59       updates owed, in 1/FrameUnit frames
  tickLog,             \* history: the events of the last frame
  gridAtSave,          \* history: the grid when saveGameCanvas last ran
  budget               \* history: the operations still allowed (bounds)

vars == <<width, height, gameImagedata32, saveGameImagedata32, gamestateSaved,
          particles, spigots, threw, nextElemIdx, fpsSetting, lastLoop,
          frameDebt, call, tickLog, gridAtSave, budget>>

\* what no handler of the game changes: the canvas size and the menu settings
dimVars  == <<width, height, spigots>>
saveVars == <<saveGameImagedata32, gamestateSaved, gridAtSave>>
\* the pacing of the main loop, which only setFPS and mainLoop change
loopVars == <<fpsSetting, lastLoop, frameDebt>>

\* canvasConfig.js:27-28
MAX_FPS == 120
DEFAULT_FPS == 60

\* game.js:94-97: msPerFrame is 1000.0 / fpsSetting whenever fpsSetting > 0,
\* so deltaMs / msPerFrame is deltaMs * fpsSetting / 1000; frameDebt is kept
\* in thousandths of a frame
FrameUnit == 1000

\* game.js:279: loopMiscTimeMs = 3.5, in half milliseconds
loopMiscTime2 == 7

(***************************************************************************)
(* Bounds of the model.                                                    *)
(***************************************************************************)
MaxWidth == 4
MaxHeight == 4
MAX_NUM_PARTICLES == 2
MaxStrokes == 2
MaxTicks == 2
MaxPoolOps == 4
MaxElemIdx == 64

(***************************************************************************)
(* Bit fields of a non-negative integer.                                   *)
(***************************************************************************)
RECURSIVE Pow2(_)
Pow2(n) == IF n = 0 THEN 1 ELSE 2 * Pow2(n - 1)

\* (v >>> lo) & (2^n - 1)
Bits(v, lo, n) == (v \div Pow2(lo)) % Pow2(n)

(***************************************************************************)
(* elements.js:62-80  __inGameColor, with __next_elem_idx = idx.           *)
(***************************************************************************)
InGameColorBadGreen(idx, r, g, b) ==
  LET r1 == Bits(r, 2, 6) * 4
      g1 == Bits(g, 2, 6) * 4
      b1 == Bits(b, 2, 6) * 4
      r_idx == Bits(idx, 0, 2)
      g_idx == Bits(idx, 1, 2)
      b_idx == Bits(idx, 4, 2)
  IN <<255, (b1 + b_idx) * 65536 + (g1 + g_idx) * 256 + (r1 + r_idx)>>

InGameColor(idx, r, g, b) ==
  LET r1 == Bits(r, 2, 6) * 4          \* r & 0xfc
      g1 == Bits(g, 2, 6) * 4          \* g & 0xfc
      b1 == Bits(b, 2, 6) * 4          \* b & 0xfc
      r_idx == Bits(idx, 0, 2)         \* idx & 0b11
      g_idx == Bits(idx, 2, 2)         \* (idx & 0b1100) >>> 2
      b_idx == Bits(idx, 4, 2)         \* (idx & 0b110000) >>> 4
  IN \* alpha + (b << 16) + (g << 8) + r, alpha = 0xff000000
     <<255, (b1 + b_idx) * 65536 + (g1 + g_idx) * 256 + (r1 + r_idx)>>

\* game.js:129-130, elements.js:223-224: the index decoded from a colour
\* ((c & 0x30000) >>> 12) + ((c & 0x300) >>> 6) + (c & 0x3)
ElemIdx(c) ==
  Bits(c[2], 16, 2) * 16 + Bits(c[2], 8, 2) * 4 + Bits(c[2], 0, 2)

Alpha(c) == c[1]                        \* c >>> 24
Red(c)   == Bits(c[2], 0, 8)            \* c & 0xff
Green(c) == Bits(c[2], 8, 8)            \* (c & 0xff00) >>> 8
Blue(c)  == Bits(c[2], 16, 8)           \* (c & 0xff0000) >>> 16

(***************************************************************************)
(* elements.js:83-119: the element colours, in declaration order.          *)
(***************************************************************************)
BaseColors == <<
  <<0, 0, 0>>,       <<127, 127, 127>>, <<223, 193, 99>>,  <<0, 10, 255>>,
  <<0, 220, 0>>,     <<255, 0, 10>>,    <<253, 253, 253>>, <<127, 175, 255>>,
  <<150, 60, 0>>,    <<117, 189, 252>>, <<131, 11, 28>>,   <<200, 5, 0>>,
  <<170, 170, 140>>, <<239, 225, 211>>, <<240, 225, 211>>, <<0, 150, 26>>,
  <<220, 128, 70>>,  <<240, 230, 150>>, <<180, 180, 180>>, <<219, 175, 199>>,
  <<161, 232, 255>>, <<20, 153, 220>>,  <<245, 110, 40>>,  <<68, 40, 8>>,
  <<195, 214, 235>>, <<0, 213, 255>>,   <<162, 232, 196>>, <<140, 140, 140>>,
  <<120, 75, 33>>,   <<70, 35, 10>>,    <<166, 128, 100>>, <<82, 107, 45>>,
  <<230, 235, 110>>, <<245, 98, 78>>,   <<157, 240, 40>>,  <<195, 140, 70>>,
  <<255, 130, 130>> >>

\* elements.js:129-167: elements[k] is the colour of element index k - 1
\* (TLA+ sequences start at 1).
elements ==
  [k \in 1..Len(BaseColors) |->
     InGameColor(k - 1, BaseColors[k][1], BaseColors[k][2], BaseColors[k][3])]

NUM_ELEMENTS == Len(elements)

BACKGROUND       == elements[1]
WALL             == elements[2]
SAND             == elements[3]
WATER            == elements[4]
PLANT            == elements[5]
FIRE             == elements[6]
SALT             == elements[7]
SALT_WATER       == elements[8]
OIL              == elements[9]
SPOUT            == elements[10]
WELL             == elements[11]
TORCH            == elements[12]
GUNPOWDER        == elements[13]
WAX              == elements[14]
FALLING_WAX      == elements[15]
NITRO            == elements[16]
NAPALM           == elements[17]
C4               == elements[18]
CONCRETE         == elements[19]
FUSE             == elements[20]
ICE              == elements[21]
CHILLED_ICE      == elements[22]
LAVA             == elements[23]
ROCK             == elements[24]
STEAM            == elements[25]
CRYO             == elements[26]
MYSTERY          == elements[27]
METHANE          == elements[28]
SOIL             == elements[29]
WET_SOIL         == elements[30]
BRANCH           == elements[31]
LEAF             == elements[32]
POLLEN           == elements[33]
CHARGED_NITRO    == elements[34]
ACID             == elements[35]
THERMITE         == elements[36]
BURNING_THERMITE == elements[37]

RegisteredColors == {elements[k] : k \in 1..NUM_ELEMENTS}

(***************************************************************************)
(* elements.js:213-237  initElements on a table elems (a sequence of       *)
(* colours) with numActions rules: the exception it throws, "" for none.   *)
(***************************************************************************)
checkElementNoAlpha(elems, k) ==
  LET color == elems[k]
  IN IF ElemIdx(color) # k - 1
       THEN "elements array order does not match element indices"
     ELSE IF \E j \in 1..(k - 1) : elems[j] = color THEN "duplicate color"
     ELSE ""

\* elements.js:221-234: the checks of the entry at index k - 1
checkElement(elems, k) ==
  LET color == elems[k]
  IN IF ElemIdx(color) # k - 1
       THEN "elements array order does not match element indices"
     ELSE IF \E j \in 1..(k - 1) : elems[j] = color THEN "duplicate color"
     ELSE IF Alpha(color) # 255 THEN "alpha must be set to 0xff"
     ELSE ""

\* elements.js:221-235: the loop, from the entry at index k - 1 on
RECURSIVE initElementsLoop(_, _)
initElementsLoop(elems, k) ==
  IF k > Len(elems) THEN ""
  ELSE IF checkElement(elems, k) # "" THEN checkElement(elems, k)
  ELSE initElementsLoop(elems, k + 1)

initElements(elems, numActions) ==
  IF Len(elems) > 64
    THEN "too many elements (we only use 6 bits for element index)"
  ELSE IF Len(elems) # numActions THEN "need 1 action per element"
  ELSE initElementsLoop(elems, 1)

\* elements.js:243-260
GAS_PERMEABLE ==
  {SAND, WATER, SALT, SALT_WATER, OIL, GUNPOWDER, FALLING_WAX, NITRO, NAPALM,
   CONCRETE, ROCK, CRYO, MYSTERY, SOIL, WET_SOIL, POLLEN, CHARGED_NITRO, ACID}

\* elements.js:634-643
lava_immune == {LAVA, BACKGROUND, FIRE, WALL, ROCK, WATER, SALT_WATER, STEAM}

\* particles.js:802-812
PAINTABLE_PARTICLE_COLORS ==
  {FIRE, WALL, ROCK, LAVA, PLANT, SPOUT, WELL, WAX, ICE, BRANCH, LEAF}

\* particles.js:816-821
MAGIC_COLORS == {WALL, PLANT, SPOUT, WELL, WAX, ICE}

\* menu.js:28-35
elementMenuItems ==
  {WALL, SAND, WATER, PLANT, FIRE, SPOUT, WELL, SALT, OIL, WAX, TORCH, ICE,
   GUNPOWDER, NAPALM, NITRO, C4, LAVA, CRYO, FUSE, MYSTERY, CONCRETE, METHANE,
   SOIL, ACID, THERMITE, BACKGROUND}

(***************************************************************************)
(* Values that are not colours.                                            *)
(***************************************************************************)
undefined == <<>>          \* a read outside a typed array
NoElem    == <<-1>>        \* the -1 the code uses for "no element"
NULL      == 0             \* null particle reference (particles are 1..N)

\* game.js:51-53
MAX_X_IDX == width - 1
MAX_Y_IDX == height - 1
MAX_IDX   == width * height - 1

Cells == 0..MAX_IDX

\* Uint32Array semantics: a read outside the array gives undefined, a write
\* outside the array is ignored, and undefined is stored as 0.
Read(g, i) == IF i \in DOMAIN g THEN g[i] ELSE undefined

Write(g, i, v) ==
  IF i \in DOMAIN g
    THEN [g EXCEPT ![i] = IF v = undefined THEN <<0, 0>> ELSE v]
    ELSE g

\* `if (c) gameImagedata32[i] = v` on the machine state
PutIf(c, s, i, v) ==
  IF c THEN [s EXCEPT !.grid = Write(s.grid, i, v)] ELSE s

\* gameImagedata32[i] = v on the machine state
Put(s, i, v) == [s EXCEPT !.grid = Write(s.grid, i, v)]

(***************************************************************************)
(* Outcomes, and the random source.                                        *)
(***************************************************************************)
Out(s, v) == [st |-> s, ret |-> v]

Max2(a, b) == IF a >= b THEN a ELSE b
Min2(a, b) == IF a <= b THEN a ELSE b

\* part_002:32: the buffer holds Math.floor(Math.random() * 100)
RandomValues == 0..99

\* part_002:41-48  random(): the next entry of the buffer.  The entries a
\* scenario has fixed are consumed first; any value may follow them.
random(s) ==
  IF s.rnd # <<>>
    THEN {Out([s EXCEPT !.rnd = Tail(@)], Head(s.rnd))}
    ELSE {Out(s, r) : r \in RandomValues}

\* the outcomes of the test `random() < chance`
RandLess(s, chance) ==
  IF s.rnd # <<>> THEN {Out(o.st, o.ret < chance) : o \in random(s)}
  ELSE {Out(s, b) : b \in {r < chance : r \in RandomValues}}

\* if (random() < chance) A(state) else B(state), for set-valued A and B
IfRand(s, chance, A(_), B(_)) ==
  UNION {IF o.ret THEN A(o.st) ELSE B(o.st) : o \in RandLess(s, chance)}

\* M is a set of outcomes of a call that returns a boolean ("did something"):
\* `if (call) return; rest`
OrElse(M, K(_)) == UNION {IF o.ret THEN {o.st} ELSE K(o.st) : o \in M}

\* M is a set of outcomes; continue with K(state, returned value)
Bind(M, K(_, _)) == UNION {K(o.st, o.ret) : o \in M}


(***************************************************************************)
(* elements.js:1199-1393  helpers: what occupies the cells around (x,y).   *)
(* A location is a cell index, or -1 for none.                             *)
(***************************************************************************)
pickRandValidFirst(s, a, b) ==
  IF a # -1 THEN {Out(s, a)}
  ELSE IF b # -1 THEN {Out(s, b)}
  ELSE {Out(s, -1)}

\* elements.js:1199-1207
pickRandValid(s, a, b) ==
  IF a # -1 /\ b # -1
    THEN {Out(o.st, IF o.ret THEN a ELSE b) : o \in RandLess(s, 50)}
    ELSE IF a # -1 THEN {Out(s, a)}
    ELSE IF b # -1 THEN {Out(s, b)}
    ELSE {Out(s, -1)}

\* elements.js:1210-1216
below(s, y, i, type) ==
  IF y = MAX_Y_IDX THEN -1
  ELSE IF Read(s.grid, i + width) = type THEN i + width ELSE -1

belowAdjacentNoEdgeCheck(s, x, y, i, type) ==
  IF y = MAX_Y_IDX THEN {Out(s, -1)}
  ELSE LET belowSpot == i + width
           belowLeftSpot == belowSpot - 1
           belowLeftMatch ==
             IF Read(s.grid, belowLeftSpot) = type THEN belowLeftSpot ELSE -1
           belowRightSpot == belowSpot + 1
           belowRightMatch ==
             IF Read(s.grid, belowRightSpot) = type
               THEN belowRightSpot ELSE -1
       IN IF Read(s.grid, belowSpot) = type
            THEN {Out(s, belowSpot)}
            ELSE pickRandValid(s, belowLeftMatch, belowRightMatch)

\* elements.js:1219-1237
belowAdjacent(s, x, y, i, type) ==
  IF y = MAX_Y_IDX THEN {Out(s, -1)}
  ELSE LET belowSpot == i + width
           belowLeftSpot == belowSpot - 1
           belowLeftMatch ==
             IF x # 0 /\ Read(s.grid, belowLeftSpot) = type
               THEN belowLeftSpot ELSE -1
           belowRightSpot == belowSpot + 1
           belowRightMatch ==
             IF x # MAX_X_IDX /\ Read(s.grid, belowRightSpot) = type
               THEN belowRightSpot ELSE -1
       IN IF Read(s.grid, belowSpot) = type
            THEN {Out(s, belowSpot)}
            ELSE pickRandValid(s, belowLeftMatch, belowRightMatch)

\* elements.js:1240-1246
above(s, y, i, type) ==
  IF y = 0 THEN -1
  ELSE IF Read(s.grid, i - width) = type THEN i - width ELSE -1

aboveAdjacentLooksBelow(s, x, y, i, type) == belowAdjacent(s, x, y, i, type)

\* elements.js:1249-1266
aboveAdjacent(s, x, y, i, type) ==
  IF y = 0 THEN {Out(s, -1)}
  ELSE LET aboveSpot == i - width
           aboveLeftSpot == aboveSpot - 1
           aboveLeftMatch ==
             IF x # 0 /\ Read(s.grid, aboveLeftSpot) = type
               THEN aboveLeftSpot ELSE -1
           aboveRightSpot == aboveSpot + 1
           aboveRightMatch ==
             IF x # MAX_X_IDX /\ Read(s.grid, aboveRightSpot) = type
               THEN aboveRightSpot ELSE -1
       IN IF Read(s.grid, aboveSpot) = type
            THEN {Out(s, aboveSpot)}
            ELSE pickRandValid(s, aboveLeftMatch, aboveRightMatch)

adjacentNoEdgeCheck(s, x, i, type) ==
  LET leftSpot == i - 1
      rightSpot == i + 1
      leftMatch == IF Read(s.grid, leftSpot) = type THEN leftSpot ELSE -1
      rightMatch == IF Read(s.grid, rightSpot) = type THEN rightSpot ELSE -1
  IN pickRandValid(s, leftMatch, rightMatch)

\* elements.js:1269-1279
adjacent(s, x, i, type) ==
  LET leftSpot == i - 1
      rightSpot == i + 1
      leftMatch ==
        IF x # 0 /\ Read(s.grid, leftSpot) = type THEN leftSpot ELSE -1
      rightMatch ==
        IF x # MAX_X_IDX /\ Read(s.grid, rightSpot) = type
          THEN rightSpot ELSE -1
  IN pickRandValid(s, leftMatch, rightMatch)

\* elements.js:1282-1298
bordering(s, x, y, i, type) ==
  LET loc1 == IF y # MAX_Y_IDX THEN below(s, y, i, type) ELSE -1
      M2 == IF loc1 = -1 THEN adjacent(s, x, i, type) ELSE {Out(s, loc1)}
  IN {IF o.ret = -1 /\ y # 0 THEN Out(o.st, above(o.st, y, i, type)) ELSE o
        : o \in M2}

\* elements.js:1301-1317
borderingAdjacent(s, x, y, i, type) ==
  LET M1 == IF y # MAX_Y_IDX
              THEN belowAdjacent(s, x, y, i, type) ELSE {Out(s, -1)}
      M2 == UNION {IF o.ret = -1 THEN adjacent(o.st, x, i, type) ELSE {o}
                     : o \in M1}
  IN UNION {IF o.ret = -1 /\ y # 0
              THEN aboveAdjacent(o.st, x, y, i, type) ELSE {o} : o \in M2}

\* elements.js:1320-1327
surroundedBy(s, x, y, i, type) ==
  /\ ~(y # MAX_Y_IDX /\ Read(s.grid, i + width) # type)
  /\ ~(y # 0 /\ Read(s.grid, i - width) # type)
  /\ ~(x # 0 /\ Read(s.grid, i - 1) # type)
  /\ ~(x # MAX_X_IDX /\ Read(s.grid, i + 1) # type)

\* elements.js:1330-1352
surroundedByAdjacent(s, x, y, i, type) ==
  LET atBottom == y = MAX_Y_IDX
      atTop == y = 0
      side(idx) ==
        /\ Read(s.grid, idx) = type
        /\ ~(~atTop /\ Read(s.grid, idx - width) # type)
        /\ ~(~atBottom /\ Read(s.grid, idx + width) # type)
  IN /\ ~(~atBottom /\ Read(s.grid, i + width) # type)
     /\ ~(~atTop /\ Read(s.grid, i - width) # type)
     /\ (x # 0 => side(i - 1))
     /\ (x # MAX_X_IDX => side(i + 1))

\* elements.js:1600-1611
uniformBelowAdjacent(s, x, y, i) ==
  IF y = MAX_Y_IDX THEN NoElem
  ELSE LET belowIdx == i + width
           belowElem == Read(s.grid, belowIdx)
       IN IF x # 0 /\ Read(s.grid, belowIdx - 1) # belowElem THEN NoElem
          ELSE IF x # MAX_X_IDX /\ Read(s.grid, belowIdx + 1) # belowElem
            THEN NoElem
          ELSE belowElem

\* elements.js:1613-1618
gasPermeable(elem) ==
  IF elem = BACKGROUND \/ elem = STEAM \/ elem = METHANE THEN FALSE
  ELSE elem \in GAS_PERMEABLE

\* part_002:119-128  fastItoXYBordering; "throw" is the pair <<-1, -1>> here
\* and the caller records the exception.
fastItoXYBordering(startX, startY, startI, goalI) ==
  IF startI + width = goalI THEN <<startX, startY + 1>>
  ELSE IF startI - 1 = goalI THEN <<startX - 1, startY>>
  ELSE IF startI + 1 = goalI THEN <<startX + 1, startY>>
  ELSE IF startI - width = goalI THEN <<startX, startY - 1>>
  ELSE <<-1, -1>>

(***************************************************************************)
(* elements.js:1395-1679  the action primitives.  Each returns the set of  *)
(* its outcomes; ret is the boolean the JavaScript function returns.       *)
(***************************************************************************)
\* the move `gameImagedata32[newI] = gameImagedata32[i];
\*           gameImagedata32[i] = leave`
MoveTo(s, i, newI, leave) == Put(Put(s, newI, Read(s.grid, i)), i, leave)

doGravityNoBottomDelete(s, x, y, i, fallAdjacent, chance) ==
  IfRand(s, chance,
    LAMBDA s1 :
      IF y = MAX_Y_IDX THEN {Out(s1, FALSE)}
      ELSE Bind(IF fallAdjacent THEN belowAdjacent(s1, x, y, i, BACKGROUND)
                ELSE {Out(s1, below(s1, y, i, BACKGROUND))},
             LAMBDA s2, n1 :
               Bind(IF n1 = -1 /\ fallAdjacent
                      THEN adjacent(s2, x, i, BACKGROUND) ELSE {Out(s2, n1)},
                    LAMBDA s3, newI :
                      IF newI # -1
                        THEN {Out(MoveTo(s3, i, newI, BACKGROUND), TRUE)}
                        ELSE {Out(s3, FALSE)})),
    LAMBDA s1 : {Out(s1, FALSE)})

doGravityStraight(s, x, y, i, fallAdjacent, chance) ==
  IfRand(s, chance,
    LAMBDA s1 :
      IF y = MAX_Y_IDX THEN {Out(Put(s1, i, BACKGROUND), TRUE)}
      ELSE IF below(s1, y, i, BACKGROUND) # -1
        THEN {Out(MoveTo(s1, i, i + width, BACKGROUND), TRUE)}
      ELSE {Out(s1, FALSE)},
    LAMBDA s1 : {Out(s1, FALSE)})

\* elements.js:1395-1417
doGravity(s, x, y, i, fallAdjacent, chance) ==
  IfRand(s, chance,
    LAMBDA s1 :
      IF y = MAX_Y_IDX THEN {Out(Put(s1, i, BACKGROUND), TRUE)}
      ELSE Bind(IF fallAdjacent THEN belowAdjacent(s1, x, y, i, BACKGROUND)
                ELSE {Out(s1, below(s1, y, i, BACKGROUND))},
             LAMBDA s2, n1 :
               Bind(IF n1 = -1 /\ fallAdjacent
                      THEN adjacent(s2, x, i, BACKGROUND) ELSE {Out(s2, n1)},
                    LAMBDA s3, newI :
                      IF newI # -1
                        THEN {Out(MoveTo(s3, i, newI, BACKGROUND), TRUE)}
                        ELSE {Out(s3, FALSE)})),
    LAMBDA s1 : {Out(s1, FALSE)})

\* elements.js:1426-1447
doRise(s, x, y, i, riseChance, adjacentChance) ==
  LET finish(M) ==
        \* M: outcomes whose ret is newI after the rise attempt
        UNION {
          LET M2 == IF o.ret = -1
                      THEN IfRand(o.st, adjacentChance,
                             LAMBDA t : adjacent(t, x, i, BACKGROUND),
                             LAMBDA t : {Out(t, -1)})
                      ELSE {o}
          IN {IF o2.ret # -1
                THEN Out(MoveTo(o2.st, i, o2.ret, BACKGROUND), TRUE)
                ELSE Out(o2.st, FALSE) : o2 \in M2}
          : o \in M}
  IN IfRand(s, riseChance,
       LAMBDA s1 :
         IF y = 0 THEN {Out(Put(s1, i, BACKGROUND), TRUE)}
         ELSE finish(aboveAdjacent(s1, x, y, i, BACKGROUND)),
       LAMBDA s1 : finish({Out(s1, -1)}))

doDensitySinkLeavesEmpty(s, x, y, i, heavierThan, sinkAdjacent, chance) ==
  IfRand(s, chance,
    LAMBDA s1 :
      IF y = MAX_Y_IDX THEN {Out(s1, FALSE)}
      ELSE Bind(IF sinkAdjacent THEN belowAdjacent(s1, x, y, i, heavierThan)
                ELSE {Out(s1, below(s1, y, i, heavierThan))},
             LAMBDA s2, newI :
               IF newI = -1 THEN {Out(s2, FALSE)}
               ELSE {Out(MoveTo(s2, i, newI, BACKGROUND), TRUE)}),
    LAMBDA s1 : {Out(s1, FALSE)})

\* elements.js:1450-1464
doDensitySink(s, x, y, i, heavierThan, sinkAdjacent, chance) ==
  IfRand(s, chance,
    LAMBDA s1 :
      IF y = MAX_Y_IDX THEN {Out(s1, FALSE)}
      ELSE Bind(IF sinkAdjacent THEN belowAdjacent(s1, x, y, i, heavierThan)
                ELSE {Out(s1, below(s1, y, i, heavierThan))},
             LAMBDA s2, newI :
               IF newI = -1 THEN {Out(s2, FALSE)}
               ELSE {Out(MoveTo(s2, i, newI, heavierThan), TRUE)}),
    LAMBDA s1 : {Out(s1, FALSE)})

doDensityLiquidLeavesEmpty(s, x, y, i, heavierThan, sinkChance, equalizeChance) ==
  LET M1 == IfRand(s, sinkChance,
              LAMBDA s1 : belowAdjacent(s1, x, y, i, heavierThan),
              LAMBDA s1 : {Out(s1, -1)})
      M2 == UNION {IF o.ret = -1
                     THEN IfRand(o.st, equalizeChance,
                            LAMBDA t : adjacent(t, x, i, heavierThan),
                            LAMBDA t : {Out(t, -1)})
                     ELSE {o} : o \in M1}
  IN {IF o.ret = -1 THEN Out(o.st, FALSE)
      ELSE Out(MoveTo(o.st, i, o.ret, BACKGROUND), TRUE) : o \in M2}

\* elements.js:1467-1480
doDensityLiquid(s, x, y, i, heavierThan, sinkChance, equalizeChance) ==
  LET M1 == IfRand(s, sinkChance,
              LAMBDA s1 : belowAdjacent(s1, x, y, i, heavierThan),
              LAMBDA s1 : {Out(s1, -1)})
      M2 == UNION {IF o.ret = -1
                     THEN IfRand(o.st, equalizeChance,
                            LAMBDA t : adjacent(t, x, i, heavierThan),
                            LAMBDA t : {Out(t, -1)})
                     ELSE {o} : o \in M1}
  IN {IF o.ret = -1 THEN Out(o.st, FALSE)
      ELSE Out(MoveTo(o.st, i, o.ret, heavierThan), TRUE) : o \in M2}

\* elements.js:1482-1490
doGrow(s, x, y, i, intoColor, chance) ==
  IfRand(s, chance,
    LAMBDA s1 :
      Bind(borderingAdjacent(s1, x, y, i, intoColor),
           LAMBDA s2, growLoc :
             IF growLoc = -1 THEN {Out(s2, FALSE)}
             ELSE {Out(Put(s2, growLoc, Read(s2.grid, i)), TRUE)}),
    LAMBDA s1 : {Out(s1, FALSE)})

\* elements.js:1492-1499
doBorderBurn(s, x, y, i) ==
  LET s1 == PutIf(y # 0, s, i - width, FIRE)
      s2 == PutIf(y # MAX_Y_IDX, s1, i + width, FIRE)
      s3 == PutIf(x # 0, s2, i - 1, FIRE)
      s4 == PutIf(x # MAX_X_IDX, s3, i + 1, FIRE)
  IN Put(s4, i, FIRE)

\* elements.js:1532-1533 (and 1537, 1542, 1547): one distance-2 burn
\* if (gameImagedata32[loc] !== GUNPOWDER || random() < 50)
\*   gameImagedata32[loc] = FIRE;
burnAtTwo(s, loc) ==
  IF Read(s.grid, loc) # GUNPOWDER THEN {Put(s, loc, FIRE)}
  ELSE {IF o.ret THEN Put(o.st, loc, FIRE) ELSE o.st : o \in RandLess(s, 50)}

\* elements.js:1501-1550
doGunpowderExplosion(s, x, y, i) ==
  UNION {
    LET burn == ob.ret
        replace == IF burn THEN FIRE ELSE GUNPOWDER
        isNotLeftmost == x # 0
        isNotRightmost == x # MAX_X_IDX
        up == i - width
        down == i + width
        t0 == Put(ob.st, i, replace)
        t1 == PutIf(y # 0, t0, up, replace)
        t2 == PutIf(y # 0 /\ isNotLeftmost, t1, up - 1, replace)
        t3 == PutIf(y # 0 /\ isNotRightmost, t2, up + 1, replace)
        t4 == PutIf(isNotLeftmost, t3, i - 1, replace)
        t5 == PutIf(isNotRightmost, t4, i + 1, replace)
        t6 == PutIf(y # MAX_Y_IDX, t5, down, replace)
        t7 == PutIf(y # MAX_Y_IDX /\ isNotLeftmost, t6, down - 1, replace)
        t8 == PutIf(y # MAX_Y_IDX /\ isNotRightmost, t7, down + 1, replace)
        S1(u) == IF y - 2 >= 0 THEN burnAtTwo(u, i - 2 * width) ELSE {u}
        S2(u) == IF y + 2 >= 0 THEN burnAtTwo(u, i + 2 * width) ELSE {u}
        S3(u) == IF x - 2 >= 0 THEN burnAtTwo(u, i - 2) ELSE {u}
        S4(u) == IF x + 2 >= 0 THEN burnAtTwo(u, i + 2) ELSE {u}
    IN IF ~burn THEN {t8}
       ELSE IfRand(t8, 40,
              LAMBDA u0 :
                UNION {UNION {UNION {S4(u3) : u3 \in S3(u2)}
                                : u2 \in S2(u1)} : u1 \in S1(u0)},
              LAMBDA u0 : {u0})
    : ob \in RandLess(s, 60)}

doTransformTwoDraws(s, x, y, i, transformBy, transformInto, transformChance, consumeChance) ==
  Bind(random(s),
    LAMBDA s1, rand :
      IF rand >= transformChance THEN {Out(s1, FALSE)}
      ELSE Bind(bordering(s1, x, y, i, transformBy),
             LAMBDA s2, transformLoc :
               IF transformLoc = -1 THEN {Out(s2, FALSE)}
               ELSE LET t == Put(s2, i, transformInto)
                    IN {Out(IF o.ret
                              THEN Put(o.st, transformLoc, transformInto)
                              ELSE o.st, TRUE)
                          : o \in RandLess(t, consumeChance)}))

\* elements.js:1552-1570
doTransform(s, x, y, i, transformBy, transformInto, transformChance, consumeChance) ==
  Bind(random(s),
    LAMBDA s1, rand :
      IF rand >= transformChance THEN {Out(s1, FALSE)}
      ELSE Bind(bordering(s1, x, y, i, transformBy),
             LAMBDA s2, transformLoc :
               IF transformLoc = -1 THEN {Out(s2, FALSE)}
               ELSE LET t == Put(s2, i, transformInto)
                    IN {Out(IF rand < consumeChance
                              THEN Put(t, transformLoc, transformInto)
                              ELSE t, TRUE)}))

doProducerAlwaysOverwrite(s, x, y, i, produce, overwriteAdjacent, chance) ==
  IfRand(s, chance,
    LAMBDA s0 :
      LET s1 == PutIf(y # 0, s0, i - width, produce)
          s2 == PutIf(y # MAX_Y_IDX, s1, i + width, produce)
          s3 == PutIf(x # 0, s2, i - 1, produce)
          s4 == PutIf(x # MAX_X_IDX, s3, i + 1, produce)
      IN {Out(s4, FALSE)},
    LAMBDA s0 : {Out(s0, FALSE)})

\* elements.js:1572-1594; after the writes no value is returned (FALSE
\* stands for undefined: no caller reads it)
doProducer(s, x, y, i, produce, overwriteAdjacent, chance) ==
  IfRand(s, chance,
    LAMBDA s0 :
      LET up == i - width
          down == i + width
          left == i - 1
          right == i + 1
          s1 == PutIf(y # 0 /\ (overwriteAdjacent
                                  \/ Read(s0.grid, up) = BACKGROUND),
                      s0, up, produce)
          s2 == PutIf(y # MAX_Y_IDX
                        /\ (overwriteAdjacent
                              \/ Read(s1.grid, down) = BACKGROUND),
                      s1, down, produce)
          s3 == PutIf(x # 0 /\ (overwriteAdjacent
                                  \/ Read(s2.grid, left) = BACKGROUND),
                      s2, left, produce)
          s4 == PutIf(x # MAX_X_IDX
                        /\ (overwriteAdjacent
                              \/ Read(s3.grid, right) = BACKGROUND),
                      s3, right, produce)
      IN {Out(s4, FALSE)},
    LAMBDA s0 : {Out(s0, FALSE)})

\* elements.js:1621-1679
doDensityGas(s, x, y, i, chance) ==
  IfRand(s, chance,
    LAMBDA s1 :
      IF y = 0 THEN {Out(s1, FALSE)}
      ELSE
        LET gasElem == Read(s1.grid, i)
            aboveSpot == i - width
            aboveLeft == aboveSpot - 1
            aboveRight == aboveSpot + 1
            aboveElem == Read(s1.grid, aboveSpot)
            aboveLeftElem == IF x # 0 THEN Read(s1.grid, aboveLeft) ELSE NoElem
            aboveRightElem ==
              IF x # MAX_X_IDX THEN Read(s1.grid, aboveRight) ELSE NoElem
            swapAboveLeft ==
              IF aboveLeftElem # aboveElem /\ gasPermeable(aboveLeftElem)
                THEN aboveLeft ELSE -1
            swapAboveRight ==
              IF aboveRightElem # aboveElem
                THEN IF swapAboveLeft # -1 /\ aboveLeftElem = aboveRightElem
                       THEN aboveRight
                     ELSE IF gasPermeable(aboveRightElem) THEN aboveRight
                     ELSE -1
                ELSE -1
            M1 == IF gasPermeable(aboveElem) THEN {Out(s1, aboveSpot)}
                  ELSE pickRandValid(s1, swapAboveLeft, swapAboveRight)
            sideways(t) ==
              LET leftElem == Read(t.grid, i - 1)
                  rightElem == Read(t.grid, i + 1)
              IN IF gasPermeable(leftElem)
                      /\ Read(t.grid, i - 1 + width) # gasElem
                   THEN i - 1
                 ELSE IF gasPermeable(rightElem)
                           /\ Read(t.grid, i + 1 + width) # gasElem
                   THEN i + 1
                 ELSE -1
        IN {LET swapSpot ==
                  IF o.ret = -1 /\ x # 0 /\ x # MAX_X_IDX /\ y # MAX_Y_IDX
                    THEN sideways(o.st) ELSE o.ret
            IN IF swapSpot = -1 THEN Out(o.st, FALSE)
               ELSE Out(Put(Put(o.st, i, Read(o.st.grid, swapSpot)),
                            swapSpot, gasElem), TRUE)
            : o \in M1},
    LAMBDA s1 : {Out(s1, FALSE)})


(***************************************************************************)
(* particles.js:47-57  indices into __particleInit / __particleActions.    *)
(***************************************************************************)
UNKNOWN_PARTICLE == 0
NITRO_PARTICLE == 1
NAPALM_PARTICLE == 2
C4_PARTICLE == 3
LAVA_PARTICLE == 4
MAGIC1_PARTICLE == 5
MAGIC2_PARTICLE == 6
METHANE_PARTICLE == 7
TREE_PARTICLE == 8
CHARGED_NITRO_PARTICLE == 9
NUKE_PARTICLE == 10

ParticleTypes == UNKNOWN_PARTICLE..NUKE_PARTICLE

(***************************************************************************)
(* particles.js:566-586  class Particle.  The fields kept are those the    *)
(* list and the integer conditions of the actions read.  The geometry of   *)
(* a particle (x, y, i, size, velocities, angles: floating point numbers   *)
(* fed by Math.random) is not represented; a condition computed from it    *)
(* (offCanvas, aboutToHit, size < 1.75, iterations >= nextBranch, ...) is  *)
(* a choice between its outcomes.  maxIterations (an integer drawn from    *)
(* 5..14 that only NAPALM_PARTICLE_ACTION reads) is drawn when it is read. *)
(* Fields the constructor leaves undefined (maxBranches, branches,         *)
(* treeType) start at 0; they are only read after TREE_PARTICLE_INIT has   *)
(* set them.                                                               *)
(***************************************************************************)
Particle ==
  [type |-> UNKNOWN_PARTICLE, color |-> <<0, 0>>, actionIterations |-> 0,
   active |-> FALSE, next |-> NULL, prev |-> NULL, reinitialized |-> FALSE,
   maxBranches |-> 0, branches |-> 0, treeType |-> 0]

ParticleIds == 1..MAX_NUM_PARTICLES

\* particles.js:656-667 then particles.js:769-797: the list after
\* initParticles, every particle on the inactive list in creation order.
initParticles ==
  [activeHead |-> NULL, activeSize |-> 0,
   inactiveHead |-> 1, inactiveSize |-> Max2(MAX_NUM_PARTICLES, 1),
   particleCounts |-> [t \in ParticleTypes |-> 0],
   p |-> [id \in 1..Max2(MAX_NUM_PARTICLES, 1) |->
            [Particle EXCEPT
               !.prev = id - 1,
               !.next = IF id = Max2(MAX_NUM_PARTICLES, 1) THEN NULL
                        ELSE id + 1]]]

\* Uint32Array arithmetic of particleCounts (particles.js:661): the value
\* 2^32 - 1 that 0 - 1 wraps to is written -1, and -1 + 1 = 0.
U32Dec(v) == v - 1
U32Inc(v) == v + 1

Throw(s, e) == IF s.threw = "" THEN [s EXCEPT !.threw = e] ELSE s

\* particles.js:588-602
setColor(s, id, hexColor) == [s EXCEPT !.ps.p[id].color = hexColor]

\* particles.js:604-607
setRandomColor(s, id, whitelist) == {setColor(s, id, c) : c \in whitelist}

makeParticleInactiveKeepHead(s, particle) ==
  LET ps == s.ps
      me == ps.p[particle]
      q1 == [ps.p EXCEPT ![particle].active = FALSE,
                         ![particle].type = UNKNOWN_PARTICLE]
      q2 == IF me.prev # NULL THEN [q1 EXCEPT ![me.prev].next = me.next]
            ELSE q1
      q3 == IF me.next # NULL THEN [q2 EXCEPT ![me.next].prev = me.prev]
            ELSE q2
      q4 == IF ps.inactiveHead = NULL
              THEN [q3 EXCEPT ![particle].next = NULL, ![particle].prev = NULL]
              ELSE [q3 EXCEPT ![ps.inactiveHead].prev = particle,
                              ![particle].next = ps.inactiveHead,
                              ![particle].prev = NULL]
  IN [s EXCEPT !.ps =
        [ps EXCEPT !.particleCounts[me.type] = U32Dec(@),
                   !.activeSize = @ - 1,
                   !.inactiveHead = particle,
                   !.inactiveSize = @ + 1,
                   !.p = q4]]

\* particles.js:704-730
makeParticleInactive(s, particle) ==
  LET ps == s.ps
      me == ps.p[particle]
      q1 == [ps.p EXCEPT ![particle].active = FALSE,
                         ![particle].type = UNKNOWN_PARTICLE]
      q2 == IF me.prev # NULL THEN [q1 EXCEPT ![me.prev].next = me.next]
            ELSE q1
      q3 == IF me.next # NULL THEN [q2 EXCEPT ![me.next].prev = me.prev]
            ELSE q2
      newActiveHead == IF particle = ps.activeHead THEN me.next
                       ELSE ps.activeHead
      q4 == IF ps.inactiveHead = NULL
              THEN [q3 EXCEPT ![particle].next = NULL, ![particle].prev = NULL]
              ELSE [q3 EXCEPT ![ps.inactiveHead].prev = particle,
                              ![particle].next = ps.inactiveHead,
                              ![particle].prev = NULL]
  IN [s EXCEPT !.ps =
        [ps EXCEPT !.particleCounts[me.type] = U32Dec(@),
                   !.activeHead = newActiveHead,
                   !.activeSize = @ - 1,
                   !.inactiveHead = particle,
                   !.inactiveSize = @ + 1,
                   !.p = q4]]

\* particles.js:732-739
RECURSIVE inactivateFrom(_, _)
inactivateFrom(s, particle) ==
  IF particle = NULL THEN s
  ELSE inactivateFrom(makeParticleInactive(s, particle),
                      s.ps.p[particle].next)

inactivateAll(s) == inactivateFrom(s, s.ps.activeHead)

\* particles.js:751-753
particleActive(s, particleType) == s.ps.particleCounts[particleType] # 0

RECURSIVE addActiveParticle(_, _)
RECURSIVE particleInit(_, _, _)
RECURSIVE magic1Spokes(_, _, _)

\* particles.js:241-264: the loop that allocates the other spokes; k more
\* iterations to go
magic1SpokesNoCounts(s, particle, k) ==
  IF k = 0 THEN {s}
  ELSE UNION {
         IF o.ret = NULL THEN {o.st}
         ELSE LET newSpoke == o.ret
                  t3 == [o.st EXCEPT !.ps.p[newSpoke].type = MAGIC1_PARTICLE]
              IN magic1Spokes(setColor(t3, newSpoke, t3.ps.p[particle].color),
                              particle, k - 1)
         : o \in addActiveParticle(s, UNKNOWN_PARTICLE)}

magic1Spokes(s, particle, k) ==
  IF k = 0 THEN {s}
  ELSE UNION {
         IF o.ret = NULL THEN {o.st}
         ELSE LET newSpoke == o.ret
                  t1 == [o.st EXCEPT
                           !.ps.particleCounts[o.st.ps.p[newSpoke].type] =
                              U32Dec(@)]
                  t2 == [t1 EXCEPT
                           !.ps.particleCounts[MAGIC1_PARTICLE] = U32Inc(@)]
                  t3 == [t2 EXCEPT !.ps.p[newSpoke].type = MAGIC1_PARTICLE]
              IN magic1Spokes(setColor(t3, newSpoke, t3.ps.p[particle].color),
                              particle, k - 1)
         : o \in addActiveParticle(s, UNKNOWN_PARTICLE)}

\* particles.js:235-278
MAGIC1_PARTICLE_INIT(s, particle) ==
  LET S1 == IF ~s.ps.p[particle].reinitialized
              THEN setRandomColor(s, particle, MAGIC_COLORS) ELSE {s}
  IN UNION {magic1Spokes(s1, particle, numSpokes - 1)
              : s1 \in S1, numSpokes \in 5..18}

\* particles.js:431-452
TREE_PARTICLE_INIT(s, particle) ==
  LET s1 == setColor(s, particle, BRANCH)
  IN UNION {
       {[o2.st EXCEPT !.ps.p[particle].maxBranches = mb,
                      !.ps.p[particle].branches = 0,
                      !.ps.p[particle].treeType = tt]
          : mb \in 1..3, tt \in IF o2.ret THEN {0} ELSE {0, 1}}
       : o2 \in UNION {RandLess(o1.st, 62) : o1 \in RandLess(s1, 50)}}

\* particles.js:59-71 and the callbacks at 89-92, 94-102, 123-129, 142-154,
\* 165-179, 294-308, 334-337, 520-535, 554-558
particleInit(s0, type, particle) ==
  LET s == [s0 EXCEPT !.nInit = @ + 1]
  IN
  CASE type = UNKNOWN_PARTICLE -> {s}
    [] type = NITRO_PARTICLE -> {setColor(s, particle, FIRE)}
    [] type = NAPALM_PARTICLE -> {setColor(s, particle, FIRE)}
    [] type = C4_PARTICLE -> {setColor(s, particle, FIRE)}
    [] type = LAVA_PARTICLE ->
         {o.st : o \in RandLess(setColor(s, particle, FIRE), 75)}
    [] type = MAGIC1_PARTICLE -> MAGIC1_PARTICLE_INIT(s, particle)
    [] type = MAGIC2_PARTICLE -> setRandomColor(s, particle, MAGIC_COLORS)
    [] type = METHANE_PARTICLE -> {setColor(s, particle, FIRE)}
    [] type = TREE_PARTICLE -> TREE_PARTICLE_INIT(s, particle)
    [] type = CHARGED_NITRO_PARTICLE -> {setColor(s, particle, FIRE)}
    [] type = NUKE_PARTICLE -> {setColor(s, particle, FIRE)}

\* particles.js:672-701: the part of addActiveParticle after the size check
activateHead(s, type) ==
  LET ps == s.ps
      particle == ps.inactiveHead
      newInactiveHead == ps.p[particle].next
      q1 == IF newInactiveHead # NULL
              THEN [ps.p EXCEPT ![newInactiveHead].prev = NULL] ELSE ps.p
      q2 == IF ps.activeHead = NULL
              THEN [q1 EXCEPT ![particle].next = NULL, ![particle].prev = NULL]
              ELSE [q1 EXCEPT ![ps.activeHead].prev = particle,
                              ![particle].next = ps.activeHead,
                              ![particle].prev = NULL]
      q3 == [q2 EXCEPT ![particle].active = TRUE,
                       ![particle].reinitialized = FALSE,
                       ![particle].actionIterations = 0,
                       ![particle].type = type]
      s1 == [s EXCEPT !.nReq = @ + 1,
               !.log = Append(@, <<"alloc", particle, type, 0, 0>>),
               !.ps = [ps EXCEPT !.inactiveHead = newInactiveHead,
                                 !.inactiveSize = @ - 1,
                                 !.activeHead = particle,
                                 !.activeSize = @ + 1,
                                 !.particleCounts[type] = U32Inc(@),
                                 !.p = q3]]
  IN IF particle = NULL
       THEN {Out(Throw([s EXCEPT !.nReq = @ + 1], "TypeError"), NULL)}
       ELSE {Out(t, particle) : t \in particleInit(s1, type, particle)}

addActiveParticleCountsFirst(s, type) ==
  IF s.ps.inactiveSize = 0
    THEN {Out([s EXCEPT !.nReq = @ + 1, !.nFail = @ + 1,
                        !.ps.particleCounts[type] = U32Inc(@)], NULL)}
    ELSE activateHead(s, type)

\* particles.js:669-702
addActiveParticle(s, type) ==
  IF s.ps.inactiveSize = 0
    THEN {Out([s EXCEPT !.nReq = @ + 1, !.nFail = @ + 1], NULL)}
    ELSE activateHead(s, type)

\* reinitializeParticle without the test of particle.active
reinitializeParticleUnchecked(s, particle, newType) ==
  LET t1 == [s EXCEPT !.ps.particleCounts[s.ps.p[particle].type] = U32Dec(@)]
      t2 == [t1 EXCEPT !.ps.particleCounts[newType] = U32Inc(@)]
      t3 == [t2 EXCEPT !.ps.p[particle].type = newType,
                       !.ps.p[particle].reinitialized = TRUE]
  IN particleInit(t3, newType, particle)

\* particles.js:741-749
reinitializeParticle(s, particle, newType) ==
  IF ~s.ps.p[particle].active
    THEN {Throw(s, "Can only be used with active particles")}
    ELSE LET t1 == [s EXCEPT
                      !.ps.particleCounts[s.ps.p[particle].type] = U32Dec(@)]
             t2 == [t1 EXCEPT !.ps.particleCounts[newType] = U32Inc(@)]
             t3 == [t2 EXCEPT !.ps.p[particle].type = newType,
                              !.ps.p[particle].reinitialized = TRUE]
         IN particleInit(t3, newType, particle)

(***************************************************************************)
(* particles.js:89-564  the action callbacks.  Each returns the set of     *)
(* machine states it can leave.                                            *)
(***************************************************************************)
\* particles.js:628-638: the element at the tip of the particle, a cell
\* chosen by its floating point position, BACKGROUND outside the grid
aboutToHit(s) == {BACKGROUND} \cup {s.grid[c] : c \in DOMAIN s.grid}

\* a geometric condition (offCanvas, size below a threshold, ...): the
\* particle is freed or not
freeOrStay(s, particle) == {s, makeParticleInactive(s, particle)}

\* a geometric condition that is certain once the action has run `certain`
\* times or more: until then the particle is freed or not
freeBy(s, particle, certain) ==
  IF certain THEN {makeParticleInactive(s, particle)}
  ELSE freeOrStay(s, particle)

\* particles.js:116-119: size < 1.75.  size starts below 9 (particles.js:101)
\* and is divided by 1.3 at every fifth action: 9 / 1.3^7 < 1.75
nitroBurntOut(it) == it >= 35

\* particles.js:291 with 269-276: offCanvas() of a spoke that started on the
\* canvas and moves `it` times by a velocity of 7 or more
magic1OffCanvas(it) == 7 * it > MAX_X_IDX + MAX_Y_IDX

\* particles.js:330 with 297-307: newRadius > magic_2_max_radius.  The first
\* action leaves the radius at 20 / (2 pi), the second at more than
\* 20 / (2 pi) + magic_2_radius_spacing >= 28.18, and magic_2_max_radius is
\* below sqrt(width^2 + height^2) / 2 + 12
magic2OutOfRadius(it) == it >= 2 /\ width * width + height * height <= 1024

\* particles.js:547 with 523-524: y <= minY or offCanvas() of a particle
\* that started on the canvas and rises by 100 at each action
chargedNitroGone(it) == 100 * it > MAX_Y_IDX

\* particles.js:190-199 with 173-176: y > MAX_Y_IDX for
\* y = initY + initYVelocity * it + 0.06 * it^2 / 2, initY >= 0 and
\* initYVelocity >= -7
lavaFallenOff(it) == 3 * it * it - 700 * it > 100 * MAX_Y_IDX

\* particles.js:472 with 441-443, 495-497, 514-517: iterations >= nextBranch.
\* branchSpacing is at most 60 and nextBranch at most the iteration of the
\* last branching plus branchSpacing
treeMustBranch(it, branches) == it >= 60 * (branches + 1)

\* particles.js:131-140, with maxIterations = floor(Math.random() * 10) + 5
\* (particles.js:128) drawn at the comparison
NAPALM_PARTICLE_ACTION(s, particle) ==
  LET it == s.ps.p[particle].actionIterations
  IN IF it <= 5 THEN {s}
     ELSE IF it > 14 THEN {makeParticleInactive(s, particle)}
     ELSE freeOrStay(s, particle)

\* particles.js:156-163, size in [3, 131) (particles.js:144-153)
C4_PARTICLE_ACTION(s, particle) ==
  LET it == s.ps.p[particle].actionIterations
  IN IF it % 3 # 0 THEN {s}
     ELSE IF it >= 15 THEN {makeParticleInactive(s, particle)}
     ELSE freeOrStay(s, particle)

\* particles.js:211-224: replaceColor for what the particle is touching
\* (NoElem is the code's -1)
lavaReplaceColor(s, touchingColor) ==
  LET pick(chance, color) ==
        {Out(o.st, IF o.ret THEN color ELSE NoElem) : o \in RandLess(s, chance)}
  IN IF touchingColor = WATER \/ touchingColor = SALT_WATER THEN pick(58, ROCK)
     ELSE IF touchingColor = LAVA \/ touchingColor = ROCK THEN pick(75, LAVA)
     ELSE IF touchingColor \in {ICE, CHILLED_ICE, CRYO} THEN pick(70, ROCK)
     ELSE IF touchingColor = WALL THEN pick(25, LAVA)
     ELSE {Out(s, NoElem)}

LAVA_PARTICLE_ACTION_NoReturn(s, particle) ==
  UNION {IfRand(s0, 25,
           LAMBDA s1 :
             UNION {{IF o.ret # NoElem
                       THEN makeParticleInactive(
                              setColor(o.st, particle, o.ret), particle)
                       ELSE o.st : o \in lavaReplaceColor(s1, touching)}
                      : touching \in aboutToHit(s1)},
           LAMBDA s1 : {s1})
           : s0 \in {s, makeParticleInactive(s, particle)}}

\* particles.js:181-233
LAVA_PARTICLE_ACTION(s, particle) ==
  {makeParticleInactive(s, particle)}
  \cup IF lavaFallenOff(s.ps.p[particle].actionIterations) THEN {}
       ELSE IfRand(s, 25,
         LAMBDA s1 :
           UNION {{IF o.ret # NoElem
                     THEN makeParticleInactive(
                            setColor(o.st, particle, o.ret), particle)
                     ELSE o.st : o \in lavaReplaceColor(s1, touching)}
                    : touching \in aboutToHit(s1)},
         LAMBDA s1 : {s1})

RECURSIVE treeBranches(_, _, _, _)
treeBranchesNoNullCheck(s, particle, k, leafBranch) ==
  IF k = 0 THEN {s}
  ELSE UNION {
         IF o.ret = NULL THEN {Throw(o.st, "TypeError")}
         ELSE LET b == o.ret
                  me == o.st.ps.p[particle]
                  t1 == [o.st EXCEPT
                           !.ps.p[b].maxBranches = Max2(0, me.maxBranches - 1),
                           !.ps.p[b].treeType = me.treeType]
                  t2 == IF leafBranch THEN setColor(t1, b, LEAF) ELSE t1
              IN treeBranches(t2, particle, k - 1, leafBranch)
         : o \in addActiveParticle(s, TREE_PARTICLE)}

\* particles.js:487-507: the loop over branchAngles, k angles to go
treeBranches(s, particle, k, leafBranch) ==
  IF k = 0 THEN {s}
  ELSE UNION {
         IF o.ret = NULL THEN {o.st}
         ELSE LET b == o.ret
                  me == o.st.ps.p[particle]
                  t1 == [o.st EXCEPT
                           !.ps.p[b].maxBranches = Max2(0, me.maxBranches - 1),
                           !.ps.p[b].treeType = me.treeType]
                  t2 == IF leafBranch THEN setColor(t1, b, LEAF) ELSE t1
              IN treeBranches(t2, particle, k - 1, leafBranch)
         : o \in addActiveParticle(s, TREE_PARTICLE)}

\* particles.js:423-428 with 369-372 and 408-415: branchAngles(...).length
numBranchAngles(treeType) == IF treeType = 0 THEN 2 ELSE 3

\* particles.js:454-518
TREE_PARTICLE_ACTION(s, particle) ==
  LET hitWall == IF WALL \in aboutToHit(s)
                   THEN {makeParticleInactive(s, particle)} ELSE {}
      hitOther == aboutToHit(s) # {WALL}
      s1 == [s EXCEPT !.ps.p[particle].branches = @ + 1]
      me == s1.ps.p[particle]
      leafBranch == me.color = LEAF \/ me.branches = me.maxBranches
      branch ==
        IF me.maxBranches = 0 THEN {makeParticleInactive(s1, particle)}
        ELSE {IF t.threw = "" /\ me.branches >= me.maxBranches
                THEN makeParticleInactive(t, particle) ELSE t
                : t \in treeBranches(s1, particle,
                                     numBranchAngles(me.treeType), leafBranch)}
      wait == IF treeMustBranch(s.ps.p[particle].actionIterations,
                                s.ps.p[particle].branches)
                THEN {} ELSE {s}
  IN hitWall \cup (IF hitOther THEN wait \cup branch ELSE {})

\* particles.js:74-86 and the callbacks at 90-92, 104-121, 280-292, 310-332,
\* 339-345, 537-552, 560-564
particleAction(s, particle) ==
  LET type == s.ps.p[particle].type
      it == s.ps.p[particle].actionIterations
  IN CASE type = UNKNOWN_PARTICLE -> {Throw(s, "Unknown particle")}
       [] type = NITRO_PARTICLE -> freeBy(s, particle, nitroBurntOut(it))
       [] type = NAPALM_PARTICLE -> NAPALM_PARTICLE_ACTION(s, particle)
       [] type = C4_PARTICLE -> C4_PARTICLE_ACTION(s, particle)
       [] type = LAVA_PARTICLE -> LAVA_PARTICLE_ACTION(s, particle)
       [] type = MAGIC1_PARTICLE -> freeBy(s, particle, magic1OffCanvas(it))
       [] type = MAGIC2_PARTICLE ->
            freeBy(s, particle, magic2OutOfRadius(it))
       [] type = METHANE_PARTICLE ->
            IF it > 2 THEN {makeParticleInactive(s, particle)} ELSE {s}
       [] type = TREE_PARTICLE -> TREE_PARTICLE_ACTION(s, particle)
       [] type = CHARGED_NITRO_PARTICLE ->
            freeBy(s, particle, chargedNitroGone(it))
       [] type = NUKE_PARTICLE ->
            IF it > 4 THEN {makeParticleInactive(s, particle)} ELSE {s}

(***************************************************************************)
(* elements.js:266-1195  the element rules.  RULE_ACTION(s, x, y, i) is    *)
(* the set of machine states the rule can leave when run on cell i =       *)
(* x + y * width of machine state s.                                       *)
(***************************************************************************)
States(M) == {o.st : o \in M}

\* `if (M)` for a call M that returns a boolean
IfM(M, A(_), B(_)) == UNION {IF o.ret THEN A(o.st) ELSE B(o.st) : o \in M}

\* `M && N` for calls that return a boolean: N runs only when M is true
AndThen(M, N(_)) == UNION {IF o.ret THEN N(o.st) ELSE {o} : o \in M}

\* `if (random() < chance) { Body }`, Body returning or falling through
WhenRand(s, chance, Body(_)) ==
  UNION {IF o.ret THEN Body(o.st) ELSE {Out(o.st, FALSE)}
           : o \in RandLess(s, chance)}

\* the function returned (TRUE) or falls through to what follows (FALSE)
Done(S) == {Out(t, TRUE) : t \in S}
Fall(S) == {Out(t, FALSE) : t \in S}

\* a stage M that returned or fell through, then the stage K
Then(M, K(_)) == UNION {IF o.ret THEN {o} ELSE K(o.st) : o \in M}

\* `M !== -1` for a call M that returns a location
Hit(M) == {Out(o.st, o.ret # -1) : o \in M}

\* `particleCounts[t] < n` on a Uint32 (-1 stands for 2^32 - 1)
U32Less(v, n) == v >= 0 /\ v < n

\* elements.js:266
WALL_ACTION(s, x, y, i) == {s}

\* elements.js:268-271
BACKGROUND_ACTION(s, x, y, i) ==
  {Throw(s, "As an optimization, we should never be invoking the action for the background")}

SAND_ACTION_SinkThenFall(s, x, y, i) ==
  LET fall(t) == States(doGravity(t, x, y, i, TRUE, 95))
  IN IF y # MAX_Y_IDX /\ uniformBelowAdjacent(s, x, y, i) # SAND
       THEN UNION {fall(o.st)
                     : o \in doDensitySink(s, x, y, i, WATER, TRUE, 25)}
       ELSE fall(s)

\* elements.js:273-281
SAND_ACTION(s, x, y, i) ==
  LET fall(t) == States(doGravity(t, x, y, i, TRUE, 95))
  IN IF y # MAX_Y_IDX /\ uniformBelowAdjacent(s, x, y, i) # SAND
       THEN OrElse(doDensitySink(s, x, y, i, WATER, TRUE, 25),
              LAMBDA t : OrElse(doDensitySink(t, x, y, i, SALT_WATER, TRUE, 25),
                                fall))
       ELSE fall(s)

\* elements.js:283-286
WATER_ACTION(s, x, y, i) ==
  OrElse(doGravity(s, x, y, i, TRUE, 95),
    LAMBDA t : States(doDensityLiquid(t, x, y, i, OIL, 25, 50)))

\* elements.js:288-298
PLANT_ACTION(s, x, y, i) ==
  UNION {IfRand(o.st, 5,
           LAMBDA t : IfM(Hit(bordering(t, x, y, i, SALT)),
                          LAMBDA u : {Put(u, i, BACKGROUND)},
                          LAMBDA u : {u}),
           LAMBDA t : {t})
           : o \in doGrow(s, x, y, i, WATER, 50)}

\* elements.js:353-396: the scan of the cells around (x, y), row by row;
\* ret is flameOut.  k is the position in the scan, 0 .. (number of
\* cells of the clipped 3 x 3 square) - 1.
RECURSIVE flameScan(_, _, _, _)
flameScan(s, x, y, k) ==
  LET xStart == Max2(x - 1, 0)
      yStart == Max2(y - 1, 0)
      xEnd == Min2(x + 2, MAX_X_IDX + 1)
      yEnd == Min2(y + 2, MAX_Y_IDX + 1)
      cols == xEnd - xStart
      xIter == xStart + (k % cols)
      yIter == yStart + (k \div cols)
      borderingElem == Read(s.grid, yIter * width + xIter)
  IN IF k >= cols * (yEnd - yStart) THEN {Out(s, TRUE)}
     ELSE IF yIter = y /\ xIter = x THEN flameScan(s, x, y, k + 1)
     ELSE IF borderingElem = FIRE THEN flameScan(s, x, y, k + 1)
     ELSE IF borderingElem \in {PLANT, FUSE, BRANCH, LEAF} THEN {Out(s, FALSE)}
     ELSE IF (xIter = x \/ yIter = y) /\ borderingElem = WAX
       THEN {Out(s, FALSE)}
     ELSE IF borderingElem = OIL
       THEN IfRand(s, 50, LAMBDA t : {Out(t, FALSE)},
                          LAMBDA t : flameScan(t, x, y, k + 1))
     ELSE flameScan(s, x, y, k + 1)

\* elements.js:301-313: fire next to water goes out, unless thermite burns
\* next to it.  TRUE: the rule returned; FALSE: it goes on.
fireWaterIgnoresThermite(t, x, y, i) ==
  WhenRand(t, 80,
    LAMBDA u :
      Bind(bordering(u, x, y, i, WATER),
        LAMBDA u1, w1 :
          Bind(IF w1 = -1 THEN bordering(u1, x, y, i, SALT_WATER)
               ELSE {Out(u1, w1)},
            LAMBDA v, waterLoc :
              IF waterLoc = -1 THEN {Out(v, FALSE)}
              ELSE {Out(Put(Put(v, waterLoc, STEAM), i, BACKGROUND), TRUE)})))

fireWater(t, x, y, i) ==
  WhenRand(t, 80,
    LAMBDA u :
      Bind(bordering(u, x, y, i, WATER),
        LAMBDA u1, w1 :
          Bind(IF w1 = -1 THEN bordering(u1, x, y, i, SALT_WATER)
               ELSE {Out(u1, w1)},
            LAMBDA v, waterLoc :
              IF waterLoc = -1 THEN {Out(v, FALSE)}
              ELSE {IF o.ret # -1 THEN Out(o.st, FALSE)
                    ELSE Out(Put(Put(o.st, waterLoc, STEAM),
                                 i, BACKGROUND), TRUE)
                      : o \in bordering(v, x, y, i, BURNING_THERMITE)})))

\* elements.js:300-412
FIRE_ACTION(s, x, y, i) ==
  LET water(t) == fireWater(t, x, y, i)
      plant(t) ==
        WhenRand(t, 20,
          LAMBDA u : {IF o.ret # -1 THEN Out(Put(o.st, o.ret, FIRE), TRUE)
                      ELSE Out(o.st, FALSE)
                        : o \in borderingAdjacent(u, x, y, i, PLANT)})
      waxBurn(v, waxLoc) ==
        LET waxXY == fastItoXYBordering(x, y, i, waxLoc)
            v1 == Put(v, waxLoc, FIRE)
            fallLoc == below(v1, Max2(y, waxXY[2]), Max2(i, waxLoc),
                             BACKGROUND)
        IN IF waxXY = <<-1, -1>> THEN Throw(v, "Not bordering")
           ELSE IF fallLoc # -1 THEN Put(v1, fallLoc, FALLING_WAX)
           ELSE v1
      wax(t) ==
        WhenRand(t, 1,
          LAMBDA u : {IF o.ret # -1 THEN Out(waxBurn(o.st, o.ret), TRUE)
                      ELSE Out(o.st, FALSE)
                        : o \in bordering(u, x, y, i, WAX)})
      fuse(t) ==
        WhenRand(t, 80,
          LAMBDA u : {IF o.ret # -1 THEN Out(Put(o.st, o.ret, FIRE), TRUE)
                      ELSE Out(o.st, FALSE)
                        : o \in borderingAdjacent(u, x, y, i, FUSE)})
      flame(t) ==
        WhenRand(t, 40,
          LAMBDA u : {IF o.ret THEN Out(Put(o.st, i, BACKGROUND), TRUE)
                      ELSE Out(o.st, FALSE) : o \in flameScan(u, x, y, 0)})
      rise(t) ==
        WhenRand(t, 50,
          LAMBDA u : IF above(u, y, i, BACKGROUND) # -1
                       THEN {Out(Put(u, above(u, y, i, BACKGROUND), FIRE),
                                 TRUE)}
                       ELSE {Out(u, FALSE)})
  IN States(Then(water(s), LAMBDA t1 : Then(plant(t1), LAMBDA t2 :
            Then(wax(t2), LAMBDA t3 : Then(fuse(t3), LAMBDA t4 :
            Then(flame(t4), rise))))))

\* elements.js:414-418
SALT_ACTION(s, x, y, i) ==
  OrElse(doGravity(s, x, y, i, TRUE, 95),
    LAMBDA t : OrElse(doTransform(t, x, y, i, WATER, SALT_WATER, 25, 50),
      LAMBDA u : States(doDensitySink(u, x, y, i, SALT_WATER, TRUE, 25))))

\* elements.js:420-423
SALT_WATER_ACTION(s, x, y, i) ==
  OrElse(doGravity(s, x, y, i, TRUE, 95),
    LAMBDA t : States(doDensityLiquid(t, x, y, i, WATER, 50, 50)))

\* elements.js:425-434
OIL_ACTION(s, x, y, i) ==
  LET fall(t) == States(doGravity(t, x, y, i, TRUE, 95))
  IN IfRand(s, 30,
       LAMBDA t : IfM(Hit(bordering(t, x, y, i, FIRE)),
                      LAMBDA u : {doBorderBurn(u, x, y, i)}, fall),
       fall)

\* elements.js:436-438
SPOUT_ACTION(s, x, y, i) == States(doProducer(s, x, y, i, WATER, FALSE, 5))

\* elements.js:440-442
WELL_ACTION(s, x, y, i) == States(doProducer(s, x, y, i, OIL, FALSE, 10))

\* elements.js:444-446
TORCH_ACTION(s, x, y, i) == States(doProducer(s, x, y, i, FIRE, TRUE, 25))

GUNPOWDER_ACTION_NoRetype(s, x, y, i) ==
  LET star(t) ==
        {IF o.ret = NULL THEN o.st ELSE setColor(o.st, o.ret, FIRE)
           : o \in addActiveParticle(t, UNKNOWN_PARTICLE)}
      isStar(t) ==
        AndThen(RandLess(t, 1),
          LAMBDA u : AndThen(RandLess(u, 25),
            LAMBDA v : {Out(v, U32Less(v.ps.particleCounts[MAGIC1_PARTICLE],
                                       30))}))
      burn(t) ==
        IfM(isStar(t), star, LAMBDA u : doGunpowderExplosion(u, x, y, i))
      isLit ==
        AndThen(RandLess(s, 95),
          LAMBDA t : Hit(bordering(t, x, y, i, FIRE)))
  IN IfM(isLit, burn,
       LAMBDA t : States(doGravity(t, x, y, i, TRUE, 95)))

\* elements.js:448-470
GUNPOWDER_ACTION(s, x, y, i) ==
  LET star(t) ==
        UNION {IF o.ret = NULL THEN {o.st}
               ELSE reinitializeParticle(setColor(o.st, o.ret, FIRE),
                                         o.ret, MAGIC1_PARTICLE)
                 : o \in addActiveParticle(t, UNKNOWN_PARTICLE)}
      isStar(t) ==
        AndThen(RandLess(t, 1),
          LAMBDA u : AndThen(RandLess(u, 25),
            LAMBDA v : {Out(v, U32Less(v.ps.particleCounts[MAGIC1_PARTICLE],
                                       30))}))
      burn(t) ==
        IfM(isStar(t), star, LAMBDA u : doGunpowderExplosion(u, x, y, i))
      isLit ==
        AndThen(RandLess(s, 95),
          LAMBDA t : Hit(bordering(t, x, y, i, FIRE)))
  IN IfM(isLit, burn,
       LAMBDA t : States(doGravity(t, x, y, i, TRUE, 95)))

\* elements.js:472
WAX_ACTION(s, x, y, i) == {s}

\* elements.js:474-477
FALLING_WAX_ACTION(s, x, y, i) ==
  OrElse(doGravity(s, x, y, i, FALSE, 100), LAMBDA t : {Put(t, i, WAX)})

\* elements.js:479-502
NITRO_ACTION(s, x, y, i) ==
  LET sink(t) ==
        IF y # MAX_Y_IDX /\ uniformBelowAdjacent(t, x, y, i) # NITRO
          THEN OrElse(doDensitySink(t, x, y, i, OIL, TRUE, 25),
                 LAMBDA u : OrElse(doDensitySink(u, x, y, i, WATER, TRUE, 25),
                   LAMBDA v :
                     OrElse(doDensitySink(v, x, y, i, SALT_WATER, TRUE, 25),
                       LAMBDA w :
                         States(doDensitySink(w, x, y, i, POLLEN, TRUE, 25)))))
          ELSE {t}
      explode(t) ==
        {IF o.ret = NULL THEN o.st ELSE doBorderBurn(o.st, x, y, i)
           : o \in addActiveParticle(t, NITRO_PARTICLE)}
  IN OrElse(doGravity(s, x, y, i, TRUE, 95),
       LAMBDA t :
         IF surroundedByAdjacent(t, x, y, i, NITRO) THEN {t}
         ELSE IfM(Hit(borderingAdjacent(t, x, y, i, FIRE)),
                LAMBDA u : IfRand(u, 30, explode,
                             LAMBDA v : IfRand(v, 20,
                                          LAMBDA w : {Put(w, i, FIRE)}, sink)),
                sink))

NAPALM_ACTION_FireOnSuccess(s, x, y, i) ==
  IfM(AndThen(RandLess(s, 25), LAMBDA t : Hit(bordering(t, x, y, i, FIRE))),
    LAMBDA u : {IF o.ret # NULL THEN Put(o.st, i, FIRE) ELSE o.st
                  : o \in addActiveParticle(u, NAPALM_PARTICLE)},
    LAMBDA u : States(doGravity(u, x, y, i, TRUE, 95)))

\* elements.js:504-513
NAPALM_ACTION(s, x, y, i) ==
  IfM(AndThen(RandLess(s, 25), LAMBDA t : Hit(bordering(t, x, y, i, FIRE))),
    LAMBDA u : {IF o.ret = NULL THEN Put(o.st, i, FIRE) ELSE o.st
                  : o \in addActiveParticle(u, NAPALM_PARTICLE)},
    LAMBDA u : States(doGravity(u, x, y, i, TRUE, 95)))

\* elements.js:515-522
C4_ACTION(s, x, y, i) ==
  IfM(AndThen(RandLess(s, 60), LAMBDA t : Hit(bordering(t, x, y, i, FIRE))),
    LAMBDA u : {IF o.ret = NULL THEN Put(o.st, i, FIRE) ELSE o.st
                  : o \in addActiveParticle(u, C4_PARTICLE)},
    LAMBDA u : {u})

\* elements.js:524-546
CONCRETE_ACTION(s, x, y, i) ==
  LET late(t) ==
        IfRand(t, 10,
          LAMBDA u : IfRand(u, 10,
            LAMBDA v : IfRand(v, 5, LAMBDA w : {Put(w, i, WALL)},
                                    LAMBDA w : {w}),
            LAMBDA v : {v}),
          LAMBDA u : {u})
      fall(t) == OrElse(doGravity(t, x, y, i, TRUE, 95), late)
      harden(t) ==
        IfRand(t, 10,
          LAMBDA u : IfRand(u, 10,
            LAMBDA v : IfM(Hit(borderingAdjacent(v, x, y, i, WALL)),
                           LAMBDA w : {Put(w, i, WALL)}, fall),
            fall),
          fall)
  IN IF y # MAX_Y_IDX /\ uniformBelowAdjacent(s, x, y, i) # CONCRETE
       THEN OrElse(doDensitySink(s, x, y, i, WATER, TRUE, 35),
              LAMBDA t : OrElse(doDensitySink(t, x, y, i, SALT_WATER, TRUE, 35),
                                harden))
       ELSE harden(s)

\* elements.js:548
FUSE_ACTION(s, x, y, i) == {s}

\* elements.js:550-603
ICE_ACTION(s, x, y, i) ==
  LET melt(t) == {Put(t, i, WATER)}
      lava(t) ==
        IfRand(t, 50,
          LAMBDA u : IfM(Hit(bordering(u, x, y, i, LAVA)), melt,
                         LAMBDA v : {v}),
          LAMBDA u : {u})
      fire(t) ==
        IfRand(t, 50,
          LAMBDA u : IfM(Hit(bordering(u, x, y, i, FIRE)), melt, lava),
          lava)
      salt(t) ==
        IfRand(t, 10,
          LAMBDA u : Bind(bordering(u, x, y, i, SALT),
                       LAMBDA v, saltLoc :
                         IF saltLoc # -1 THEN melt(v)
                         ELSE IfM(Hit(bordering(v, x, y, i, SALT_WATER)),
                                  melt, fire)),
          fire)
      steam(t) ==
        IfRand(t, 70,
          LAMBDA u : Bind(bordering(u, x, y, i, STEAM),
                       LAMBDA v, steamLoc :
                         IF steamLoc = -1 THEN salt(v)
                         ELSE IfRand(Put(v, i, WATER), 50,
                                LAMBDA w : {Put(w, steamLoc, WATER)},
                                LAMBDA w : {w})),
          salt)
      water(t) ==
        IfRand(t, 1,
          LAMBDA u : IfM(Hit(bordering(u, x, y, i, WATER)), melt, steam),
          steam)
  IN IF surroundedBy(s, x, y, i, ICE) THEN {s} ELSE water(s)

\* elements.js:605-628
CHILLED_ICE_ACTION(s, x, y, i) ==
  LET thaw(t) == {Put(t, i, ICE)}
      near(t, type, else(_)) == IfM(Hit(bordering(t, x, y, i, type)), thaw, else)
  IN IfRand(s, 6, thaw,
       LAMBDA t :
         near(t, SALT,
           LAMBDA t1 : near(t1, SALT_WATER,
             LAMBDA t2 : near(t2, LAVA,
               LAMBDA t3 : near(t3, FIRE,
                 LAMBDA t4 : near(t4, STEAM,
                   LAMBDA t5 : States(doGrow(t5, x, y, i, WATER, 50))))))))

\* elements.js:707-725: set fire to what lava does not spare, around i
lavaBurn(s, up, down, left, right) ==
  LET burnOne(t, burnLoc) ==
        IF burnLoc = -1 THEN t
        ELSE IF Read(t.grid, burnLoc) \in lava_immune THEN t
        ELSE Put(t, burnLoc, FIRE)
  IN burnOne(burnOne(burnOne(burnOne(s, up), down), left), right)

skipDirectAdjacentUpEmpty(t, up, down, left, right) ==
  ~ \/ (up # -1 /\ Read(t.grid, up) \notin {LAVA, BACKGROUND})
    \/ (left # -1 /\ Read(t.grid, left) \notin {LAVA, BACKGROUND})
    \/ (right # -1 /\ Read(t.grid, right) \notin {LAVA, BACKGROUND})
    \/ (down # -1 /\ Read(t.grid, down) \notin {LAVA, BACKGROUND})

\* elements.js:658-675: the value of skipDirectAdjacent
skipDirectAdjacent(t, up, down, left, right) ==
  ~ \/ (up # -1 /\ Read(t.grid, up) # LAVA)
    \/ (left # -1 /\ Read(t.grid, left) \notin {LAVA, BACKGROUND})
    \/ (right # -1 /\ Read(t.grid, right) \notin {LAVA, BACKGROUND})
    \/ (down # -1 /\ Read(t.grid, down) \notin {LAVA, BACKGROUND})

\* elements.js:647-760, with the test of skipDirectAdjacent (elements.js:682)
\* as the code has it (shortcut) or with its block always run (~shortcut)
lavaRule(s, x, y, i, shortcut) ==
  LET up == IF y # 0 THEN i - width ELSE -1
      down == IF y # MAX_Y_IDX THEN i + width ELSE -1
      left == IF x # 0 THEN i - 1 ELSE -1
      right == IF x # MAX_X_IDX THEN i + 1 ELSE -1
      melt ==
        UNION {IF o.ret
                 THEN {IF w.ret # -1 THEN Put(w.st, w.ret, LAVA) ELSE w.st
                         : w \in borderingAdjacent(o.st, x, y, i, WALL)}
                 ELSE {o.st}
                 : o \in AndThen(RandLess(s, 1),
                                 LAMBDA t : RandLess(t, 50))}
      water(t) ==
        Bind(bordering(t, x, y, i, WATER),
          LAMBDA u, w1 :
            {IF o.ret # -1
               THEN Out(Put(Put(o.st, o.ret, STEAM), i, ROCK), TRUE)
               ELSE Out(o.st, FALSE)
               : o \in IF w1 = -1 THEN bordering(u, x, y, i, SALT_WATER)
                       ELSE {Out(u, w1)}})
      spawn(t) ==
        WhenRand(t, 4,
          LAMBDA u :
            WhenRand(u, IF U32Less(u.ps.particleCounts[LAVA_PARTICLE], 10)
                          THEN 100 ELSE 35,
              LAMBDA v :
                UNION {IF o.ret # -1
                         THEN {Out(Put(q.st, i, BACKGROUND), TRUE)
                                 : q \in addActiveParticle(o.st, LAVA_PARTICLE)}
                         ELSE {Out(o.st, FALSE)}
                         : o \in bordering(v, x, y, i, OIL)}))
      burn(t) ==
        {Out(IF o.ret THEN lavaBurn(o.st, up, down, left, right) ELSE o.st,
             FALSE) : o \in RandLess(t, 25)}
      upFire(t) ==
        {Out(IF o.ret /\ up # -1 /\ Read(o.st.grid, up) = BACKGROUND
               THEN Put(o.st, up, FIRE) ELSE o.st,
             FALSE) : o \in RandLess(t, 6)}
      under(t) ==
        IF down = -1 THEN {Out(t, FALSE)}
        ELSE IF Read(t.grid, down) = FIRE
          THEN {Out(Put(t, down, BACKGROUND), FALSE)}
        ELSE IF Read(t.grid, down) = STEAM
          THEN {IF o.ret THEN Out(Put(Put(o.st, down, LAVA), i, STEAM), TRUE)
                ELSE Out(o.st, FALSE) : o \in RandLess(t, 95)}
        ELSE {Out(t, FALSE)}
      quench(u) ==
        LET u1 == IF left # -1 /\ Read(u.grid, left) = FIRE
                    THEN Put(u, left, BACKGROUND) ELSE u
        IN IF right # -1 /\ Read(u1.grid, right) = FIRE
             THEN Put(u1, right, BACKGROUND) ELSE u1
      side(t) ==
        {Out(IF o.ret THEN quench(o.st) ELSE o.st, FALSE)
           : o \in RandLess(t, 15)}
      direct(t) ==
        Then(water(t), LAMBDA t1 : Then(spawn(t1), LAMBDA t2 :
        Then(burn(t2), LAMBDA t3 : Then(upFire(t3), LAMBDA t4 :
        Then(under(t4), side)))))
      body(t) ==
        OrElse(IF shortcut /\ skipDirectAdjacent(t, up, down, left, right)
                 THEN {Out(t, FALSE)} ELSE direct(t),
               LAMBDA u : States(doGravity(u, x, y, i, TRUE, 100)))
  IN UNION {body(m) : m \in melt}

\* elements.js:647-760
LAVA_ACTION(s, x, y, i) == lavaRule(s, x, y, i, TRUE)

\* elements.js:762-781
ROCK_ACTION(s, x, y, i) ==
  LET methane(t) ==
        IfRand(t, 1,
          LAMBDA u : IfRand(u, 20,
            LAMBDA v :
              LET aboveOil == above(v, y, i, OIL)
              IN IF aboveOil # -1
                   THEN IfRand(v, 50, LAMBDA w : {Put(w, aboveOil, METHANE)},
                                      LAMBDA w : {Put(w, i, METHANE)})
                   ELSE {v},
            LAMBDA v : {v}),
          LAMBDA u : {u})
      fall(t) == OrElse(doGravity(t, x, y, i, FALSE, 99), methane)
  IN IF y # MAX_Y_IDX /\ uniformBelowAdjacent(s, x, y, i) # ROCK
       THEN OrElse(doDensitySink(s, x, y, i, WATER, FALSE, 95),
              LAMBDA t : OrElse(doDensitySink(t, x, y, i, OIL, FALSE, 95),
                LAMBDA u :
                  OrElse(doDensitySink(u, x, y, i, SALT_WATER, FALSE, 95),
                    LAMBDA v :
                      OrElse(doDensitySink(v, x, y, i, LAVA, FALSE, 20),
                             fall))))
       ELSE fall(s)

\* elements.js:783-819
STEAM_ACTION(s, x, y, i) ==
  LET water(t) ==
        WhenRand(t, 5,
          LAMBDA u : {IF o.ret # -1 THEN Out(Put(o.st, i, WATER), TRUE)
                      ELSE Out(o.st, FALSE)
                        : o \in bordering(u, x, y, i, WATER)})
      air(t) ==
        WhenRand(t, 5,
          LAMBDA u : WhenRand(u, 40,
            LAMBDA v :
              IF below(v, y, i, BACKGROUND) # -1
                   /\ above(v, y, i, BACKGROUND) = -1
                THEN {Out(Put(o.st, i, IF o.ret THEN WATER ELSE BACKGROUND),
                          TRUE) : o \in RandLess(v, 30)}
                ELSE {Out(v, FALSE)}))
      spout(t) ==
        WhenRand(t, 5,
          LAMBDA u : {IF o.ret # -1 THEN Out(Put(o.st, i, WATER), TRUE)
                      ELSE Out(o.st, FALSE)
                        : o \in bordering(u, x, y, i, SPOUT)})
      trapped(t) ==
        WhenRand(t, 1,
          LAMBDA u : WhenRand(u, 5,
            LAMBDA v : IF below(v, y, i, STEAM) = -1
                         THEN {Out(Put(v, i, BACKGROUND), TRUE)}
                         ELSE {Out(v, FALSE)}))
  IN States(Then(doDensityGas(s, x, y, i, 70), LAMBDA t1 :
            Then(doRise(t1, x, y, i, 70, 60), LAMBDA t2 :
            Then(water(t2), LAMBDA t3 : Then(air(t3), LAMBDA t4 :
            Then(spout(t4), trapped))))))

\* elements.js:821-868: the scan of the cells around (x, y), row by row;
\* ret is TRUE when the rule returned from inside the loop
RECURSIVE cryoScan(_, _, _, _, _)
cryoScan(s, x, y, i, k) ==
  LET xStart == Max2(x - 1, 0)
      yStart == Max2(y - 1, 0)
      xEnd == Min2(x + 2, MAX_X_IDX + 1)
      yEnd == Min2(y + 2, MAX_Y_IDX + 1)
      cols == xEnd - xStart
      xIter == xStart + (k % cols)
      yIter == yStart + (k \div cols)
      idx == yIter * width + xIter
      borderingElem == Read(s.grid, idx)
      next(t) == cryoScan(t, x, y, i, k + 1)
  IN IF k >= cols * (yEnd - yStart) THEN {Out(s, FALSE)}
     ELSE IF yIter = y /\ xIter = x THEN next(s)
     ELSE IF borderingElem = CRYO THEN next(s)
     ELSE IF borderingElem = CHILLED_ICE
       THEN IfRand(s, 1,
              LAMBDA t : IfRand(t, 5,
                LAMBDA u : {Out(Put(u, i, CHILLED_ICE), TRUE)}, next),
              next)
     ELSE IF borderingElem \in {WALL, SPOUT, WAX, WELL, FUSE, PLANT, C4}
       THEN {Out(Put(s, i, CHILLED_ICE), TRUE)}
     ELSE IF borderingElem = WATER \/ borderingElem = ICE
       THEN {Out(Put(Put(s, idx, CHILLED_ICE), i, CHILLED_ICE), TRUE)}
     ELSE IF borderingElem = LAVA
       THEN {Out(Put(Put(s, i, BACKGROUND), idx, ROCK), TRUE)}
     ELSE next(s)

\* elements.js:821-879
CRYO_ACTION(s, x, y, i) ==
  LET freeze(t) ==
        IfRand(t, 1,
          LAMBDA u : IfRand(u, 50,
            LAMBDA v : IfM(Hit(bordering(v, x, y, i, BACKGROUND)),
                           LAMBDA w : {w},
                           LAMBDA w : IF ~surroundedBy(w, x, y, i, CRYO)
                                        THEN {Put(w, i, CHILLED_ICE)}
                                        ELSE {w}),
            LAMBDA v : {v}),
          LAMBDA u : {u})
  IN OrElse(cryoScan(s, x, y, i, 0),
       LAMBDA t : OrElse(doGravity(t, x, y, i, TRUE, 95), freeze))

\* elements.js:905-924: the scramble of the cells MAX_IDX .. 1, at idx
RECURSIVE scramble(_, _)
scramble(s, idx) ==
  LET currElem == Read(s.grid, idx)
      swapped(swapIdx) ==
        LET swapElem == Read(s.grid, swapIdx)
        IN IF swapElem = WALL \/ swapElem = FIRE \/ swapElem = MYSTERY THEN s
           ELSE Put(Put(s, idx, swapElem), swapIdx, currElem)
  IN IF idx = 0 THEN {s}
     ELSE IF currElem = WALL THEN scramble(s, idx - 1)
     ELSE IF currElem = FIRE \/ currElem = MYSTERY
       THEN scramble(Put(s, idx, BACKGROUND), idx - 1)
     ELSE UNION {scramble(swapped(swapIdx), idx - 1)
                   : swapIdx \in 0..(idx - 1)}

MYSTERY_ACTION_IgnoresMagic(s, x, y, i) ==
  LET spawn(t, type) ==
        {Put(o.st, i, BACKGROUND) : o \in addActiveParticle(t, type)}
      salt(t) ==
        IfM(Hit(borderingAdjacent(t, x, y, i, SALT)),
            LAMBDA u : spawn(u, MAGIC2_PARTICLE), LAMBDA u : {u})
      sand(t) ==
        IfM(Hit(borderingAdjacent(t, x, y, i, SAND)),
            LAMBDA u : spawn(u, MAGIC1_PARTICLE), salt)
  IN OrElse(doGravity(s, x, y, i, TRUE, 95),
       LAMBDA t : IfRand(t, 50, LAMBDA u : {u}, sand))

\* elements.js:881-938
MYSTERY_ACTION(s, x, y, i) ==
  LET spawn(t, type) ==
        {Put(o.st, i, BACKGROUND) : o \in addActiveParticle(t, type)}
      pollen(t) ==
        IfM(Hit(bordering(t, x, y, i, POLLEN)),
            LAMBDA u : spawn(u, NUKE_PARTICLE), LAMBDA u : {u})
      fire(t) ==
        IfM(Hit(bordering(t, x, y, i, FIRE)),
            LAMBDA u : UNION {pollen(v) : v \in scramble(u, MAX_IDX)}, pollen)
      salt(t) ==
        IfM(Hit(borderingAdjacent(t, x, y, i, SALT)),
            LAMBDA u : spawn(u, MAGIC2_PARTICLE), fire)
      sand(t) ==
        IfM(Hit(borderingAdjacent(t, x, y, i, SAND)),
            LAMBDA u : spawn(u, MAGIC1_PARTICLE), salt)
  IN IF particleActive(s, MAGIC1_PARTICLE) \/ particleActive(s, MAGIC2_PARTICLE)
       THEN {Put(s, i, BACKGROUND)}
       ELSE OrElse(doGravity(s, x, y, i, TRUE, 95),
              LAMBDA t : IfRand(t, 50, LAMBDA u : {u}, sand))

\* elements.js:940-952
METHANE_ACTION(s, x, y, i) ==
  IfM(AndThen(RandLess(s, 25), LAMBDA t : Hit(bordering(t, x, y, i, FIRE))),
    LAMBDA u : {IF o.ret = NULL THEN Put(o.st, i, FIRE) ELSE o.st
                  : o \in addActiveParticle(u, METHANE_PARTICLE)},
    LAMBDA u : OrElse(doRise(u, x, y, i, 25, 65),
                 LAMBDA v : States(doDensityGas(v, x, y, i, 70))))

\* elements.js:954-974
SOIL_ACTION(s, x, y, i) ==
  LET wet(t) ==
        IfRand(t, 15,
          LAMBDA u : {IF o.ret # -1
                        THEN Put(Put(o.st, o.ret, BACKGROUND), i, WET_SOIL)
                        ELSE o.st : o \in aboveAdjacent(u, x, y, i, WATER)},
          LAMBDA u : {u})
      charge(t) ==
        OrElse(doTransform(t, x, y, i, NITRO, CHARGED_NITRO, 25, 100), wet)
      sink(t) ==
        IF y # MAX_Y_IDX /\ uniformBelowAdjacent(t, x, y, i) # SOIL
          THEN OrElse(doDensitySink(t, x, y, i, WATER, TRUE, 50),
                 LAMBDA u :
                   OrElse(doDensitySink(u, x, y, i, SALT_WATER, TRUE, 50),
                     LAMBDA v :
                       OrElse(doDensitySink(v, x, y, i, POLLEN, TRUE, 50),
                              charge)))
          ELSE charge(t)
  IN OrElse(doGravity(s, x, y, i, FALSE, 99), sink)

\* elements.js:976-1007
WET_SOIL_ACTION(s, x, y, i) ==
  LET plantTree(t) ==
        {IF o.ret # NULL THEN Put(o.st, i, SOIL) ELSE o.st
           : o \in addActiveParticle(t, TREE_PARTICLE)}
      tree(t) ==
        IfM(Hit(aboveAdjacent(t, x, y, i, BACKGROUND)),
          LAMBDA u : IfM(Hit(belowAdjacent(u, x, y, i, SOIL)), plantTree,
            LAMBDA v : IfM(Hit(belowAdjacent(v, x, y, i, WALL)), plantTree,
                           LAMBDA w : {w})),
          LAMBDA u : {u})
      dry(t) ==
        IfRand(t, 5,
          LAMBDA u : IfRand(u, 97,
            LAMBDA v : IfM(Hit(borderingAdjacent(v, x, y, i, WATER)),
                           LAMBDA w : {w}, LAMBDA w : {Put(w, i, SOIL)}),
            LAMBDA v : IfRand(v, 35, LAMBDA w : {w}, tree)),
          LAMBDA u : {u})
      fall(t) ==
        OrElse(doGravity(t, x, y, i, FALSE, 99),
          LAMBDA u : OrElse(doDensitySink(u, x, y, i, WATER, TRUE, 50),
            LAMBDA v : OrElse(doDensitySink(v, x, y, i, SALT_WATER, TRUE, 50),
                              dry)))
  IN IfRand(s, 15,
       LAMBDA t : UNION {fall(IF o.ret # -1 THEN Put(o.st, o.ret, BACKGROUND)
                              ELSE o.st)
                           : o \in aboveAdjacent(t, x, y, i, WATER)},
       fall)

\* elements.js:1009-1015
BRANCH_ACTION(s, x, y, i) ==
  IfRand(s, 3,
    LAMBDA t : IfM(Hit(borderingAdjacent(t, x, y, i, FIRE)),
                   LAMBDA u : {Put(u, i, FIRE)}, LAMBDA u : {u}),
    LAMBDA t : {t})

\* elements.js:1017-1033
LEAF_ACTION(s, x, y, i) ==
  LET fire ==
        WhenRand(s, 5,
          LAMBDA u : {Out(PutIf(o.ret # -1, o.st, i, FIRE), FALSE)
                        : o \in borderingAdjacent(u, x, y, i, FIRE)})
      salt(t) ==
        WhenRand(t, 20,
          LAMBDA u : {IF o.ret # -1 THEN Out(Put(o.st, i, BACKGROUND), TRUE)
                      ELSE Out(o.st, FALSE)
                        : o \in borderingAdjacent(u, x, y, i, SALT)})
      pollen(t) ==
        WhenRand(t, 1,
          LAMBDA u : WhenRand(u, 9,
            LAMBDA v : Fall(States(doProducer(v, x, y, i, POLLEN, FALSE,
                                              100)))))
  IN States(Then(fire, LAMBDA t1 : Then(salt(t1), pollen)))

\* elements.js:1035-1037
POLLEN_ACTION(s, x, y, i) == States(doGravity(s, x, y, i, TRUE, 95))

\* elements.js:1039-1054
CHARGED_NITRO_ACTION(s, x, y, i) ==
  LET explode(t) ==
        IfM(Hit(borderingAdjacent(t, x, y, i, FIRE)),
          LAMBDA u : {Put(o.st, i, FIRE)
                        : o \in addActiveParticle(u, CHARGED_NITRO_PARTICLE)},
          LAMBDA u : {u})
      sink(t) ==
        IF y # MAX_Y_IDX /\ uniformBelowAdjacent(t, x, y, i) # CHARGED_NITRO
          THEN OrElse(doDensitySink(t, x, y, i, SOIL, TRUE, 25),
                 LAMBDA u : OrElse(doDensitySink(u, x, y, i, WET_SOIL, TRUE, 25),
                   LAMBDA v : OrElse(doDensitySink(v, x, y, i, NITRO, TRUE, 25),
                     LAMBDA w :
                       OrElse(doDensitySink(w, x, y, i, POLLEN, TRUE, 25),
                              explode))))
          ELSE explode(t)
  IN OrElse(doGravity(s, x, y, i, TRUE, 95), sink)

\* acidScan without `gameImagedata32[i] = BACKGROUND` (elements.js:1105)
RECURSIVE acidScanAcidStays(_, _, _, _, _, _, _)
acidScanAcidStays(s, x, y, i, xLocs, yLocs, k) ==
  LET down == IF y < MAX_Y_IDX THEN y + 1 ELSE -1
      yIter == yLocs[(k \div 4) + 1]
      xIter == xLocs[k % 4]
      idx == yIter * width + xIter
      borderingElem == Read(s.grid, idx)
      c == [s EXCEPT !.log = Append(@, <<"corrode", idx, xIter, yIter, 0>>)]
      row(t) == acidScanAcidStays(t, x, y, i, xLocs, yLocs, 4 * ((k \div 4) + 1))
      next(t) == IF k % 4 = 3 THEN row(t)
                 ELSE acidScanAcidStays(t, x, y, i, xLocs, yLocs, k + 1)
  IN IF k \div 4 = 3 THEN {Out(s, FALSE)}
     ELSE IF yIter = -1 THEN row(s)
     ELSE IF k % 4 = 0
       THEN IfRand(s, 25,
              LAMBDA t : IF yIter # down THEN row(t) ELSE next(t), next)
     ELSE IF xIter = -1 THEN next(s)
     ELSE IF yIter = y /\ xIter = x THEN next(s)
     ELSE IF xIter # x /\ yIter # y THEN next(s)
     ELSE IF borderingElem \in {ACID, BACKGROUND, WATER, SALT_WATER, ICE,
                                CHILLED_ICE, CRYO}
       THEN next(s)
     ELSE IF yIter # y + 1 THEN {Out(Put(c, idx, BACKGROUND), TRUE)}
     ELSE IF borderingElem # WALL
       THEN {Out(Put(c, idx, ACID), TRUE)}
     ELSE IfRand(c, 75,
            LAMBDA t : {Out(Put(t, idx, ACID), TRUE)},
            LAMBDA t : {Out(t, TRUE)})

\* elements.js:1073-1108: the two loops over yLocs and xLocs.  k = 4 * (the
\* position in yLocs) + (0 on entering the row, 1 + the position in xLocs
\* inside it); ret is TRUE when the rule returned from inside the loops.
\* The history notes the cell idx that lines 1100-1107 corrode.
RECURSIVE acidScan(_, _, _, _, _, _, _)
acidScan(s, x, y, i, xLocs, yLocs, k) ==
  LET down == IF y < MAX_Y_IDX THEN y + 1 ELSE -1
      yIter == yLocs[(k \div 4) + 1]
      xIter == xLocs[k % 4]
      idx == yIter * width + xIter
      borderingElem == Read(s.grid, idx)
      c == [s EXCEPT !.log = Append(@, <<"corrode", idx, xIter, yIter, 0>>)]
      row(t) == acidScan(t, x, y, i, xLocs, yLocs, 4 * ((k \div 4) + 1))
      next(t) == IF k % 4 = 3 THEN row(t)
                 ELSE acidScan(t, x, y, i, xLocs, yLocs, k + 1)
  IN IF k \div 4 = 3 THEN {Out(s, FALSE)}
     ELSE IF yIter = -1 THEN row(s)
     ELSE IF k % 4 = 0
       THEN IfRand(s, 25,
              LAMBDA t : IF yIter # down THEN row(t) ELSE next(t), next)
     ELSE IF xIter = -1 THEN next(s)
     ELSE IF yIter = y /\ xIter = x THEN next(s)
     ELSE IF xIter # x /\ yIter # y THEN next(s)
     ELSE IF borderingElem \in {ACID, BACKGROUND, WATER, SALT_WATER, ICE,
                                CHILLED_ICE, CRYO}
       THEN next(s)
     ELSE IF yIter # y + 1 THEN {Out(Put(c, idx, BACKGROUND), TRUE)}
     ELSE IF borderingElem # WALL
       THEN {Out(Put(Put(c, i, BACKGROUND), idx, ACID), TRUE)}
     ELSE IfRand(Put(c, i, BACKGROUND), 75,
            LAMBDA t : {Out(Put(t, idx, ACID), TRUE)},
            LAMBDA t : {Out(t, TRUE)})

\* elements.js:1056-1121
ACID_ACTION(s, x, y, i) ==
  LET up == IF y > 0 THEN y - 1 ELSE -1
      down == IF y < MAX_Y_IDX THEN y + 1 ELSE -1
      left == IF x > 0 THEN x - 1 ELSE -1
      right == IF x < MAX_X_IDX THEN x + 1 ELSE -1
      flow(t) ==
        OrElse(doDensityLiquid(t, x, y, i, WATER, 25, 30),
          LAMBDA u : OrElse(doDensityLiquid(u, x, y, i, SALT_WATER, 25, 30),
            LAMBDA v : States(doGravity(v, x, y, i, TRUE, 100))))
      dissolve(t) ==
        UNION {UNION {OrElse(acidScan(oy.st, x, y, i,
                               IF ox.ret THEN <<right, left, x>>
                               ELSE <<left, right, x>>,
                               IF oy.ret THEN <<up, down, y>>
                               ELSE <<down, up, y>>, 0),
                             flow)
                        : oy \in RandLess(ox.st, 50)}
                 : ox \in RandLess(t, 50)}
  IN IfRand(s, 10, dissolve, flow)

\* elements.js:1123-1139
THERMITE_ACTION(s, x, y, i) ==
  LET sink(t) ==
        OrElse(doDensitySink(t, x, y, i, WATER, FALSE, 95),
          LAMBDA u : OrElse(doDensitySink(u, x, y, i, SALT_WATER, FALSE, 95),
            LAMBDA v : OrElse(doDensitySink(v, x, y, i, OIL, FALSE, 95),
              LAMBDA w : States(doGravity(w, x, y, i, FALSE, 99)))))
  IN IF surroundedByAdjacent(s, x, y, i, THERMITE) THEN {s}
     ELSE IfRand(s, 50,
            LAMBDA t : IfM(Hit(borderingAdjacent(t, x, y, i, FIRE)),
                           LAMBDA u : {Put(u, i, BURNING_THERMITE)}, sink),
            sink)

\* elements.js:1141-1195
BURNING_THERMITE_ACTION(s, x, y, i) ==
  LET aboveIdx == IF y > 0 THEN i - width ELSE -1
      leftIdx == IF x > 0 THEN i - 1 ELSE -1
      rightIdx == IF x < MAX_X_IDX THEN i + 1 ELSE -1
      burnOne(t, burnLoc) ==
        PutIf(burnLoc # -1
                /\ Read(t.grid, burnLoc)
                     \notin {THERMITE, BURNING_THERMITE, LAVA, WALL},
              t, burnLoc, FIRE)
      s0 == burnOne(burnOne(burnOne(s, aboveIdx), leftIdx), rightIdx)
      charged ==
        WhenRand(s0, 2,
          LAMBDA t : WhenRand(t, 7,
            LAMBDA u : {Out(Put(o.st, i, FIRE), TRUE)
                          : o \in addActiveParticle(u,
                                                    CHARGED_NITRO_PARTICLE)}))
      consume(t) == WhenRand(t, 2, LAMBDA u : {Out(Put(u, i, FIRE), TRUE)})
      wallBurn(v) ==
        LET belowWall == below(v, y, i, WALL)
        IN PutIf(belowWall # -1, v, belowWall, BACKGROUND)
      wall(t) ==
        WhenRand(t, 8,
          LAMBDA u : {Out(wallBurn(PutIf(o.ret # -1, o.st, o.ret, BACKGROUND)),
                          FALSE) : o \in adjacent(u, x, i, WALL)})
      fall(t) ==
        LET belowFire == below(t, y, i, FIRE)
        IN Then(doGravity(PutIf(belowFire # -1, t, belowFire, BACKGROUND),
                          x, y, i, FALSE, 99),
             LAMBDA u : Then(doDensitySink(u, x, y, i, WATER, FALSE, 95),
               LAMBDA v :
                 Then(doDensitySink(v, x, y, i, SALT_WATER, FALSE, 95),
                   LAMBDA w : doDensitySink(w, x, y, i, OIL, FALSE, 95))))
  IN States(Then(charged, LAMBDA t1 : Then(consume(t1), LAMBDA t2 :
            Then(wall(t2), fall))))

\* elements.js:168-206  elementActions[elem_idx](x, y, i); an index past
\* the end of the array finds undefined, and calling it throws
elementAction(s, elem_idx, x, y, i) ==
  CASE elem_idx = 0 -> BACKGROUND_ACTION(s, x, y, i)
    [] elem_idx = 1 -> WALL_ACTION(s, x, y, i)
    [] elem_idx = 2 -> SAND_ACTION(s, x, y, i)
    [] elem_idx = 3 -> WATER_ACTION(s, x, y, i)
    [] elem_idx = 4 -> PLANT_ACTION(s, x, y, i)
    [] elem_idx = 5 -> FIRE_ACTION(s, x, y, i)
    [] elem_idx = 6 -> SALT_ACTION(s, x, y, i)
    [] elem_idx = 7 -> SALT_WATER_ACTION(s, x, y, i)
    [] elem_idx = 8 -> OIL_ACTION(s, x, y, i)
    [] elem_idx = 9 -> SPOUT_ACTION(s, x, y, i)
    [] elem_idx = 10 -> WELL_ACTION(s, x, y, i)
    [] elem_idx = 11 -> TORCH_ACTION(s, x, y, i)
    [] elem_idx = 12 -> GUNPOWDER_ACTION(s, x, y, i)
    [] elem_idx = 13 -> WAX_ACTION(s, x, y, i)
    [] elem_idx = 14 -> FALLING_WAX_ACTION(s, x, y, i)
    [] elem_idx = 15 -> NITRO_ACTION(s, x, y, i)
    [] elem_idx = 16 -> NAPALM_ACTION(s, x, y, i)
    [] elem_idx = 17 -> C4_ACTION(s, x, y, i)
    [] elem_idx = 18 -> CONCRETE_ACTION(s, x, y, i)
    [] elem_idx = 19 -> FUSE_ACTION(s, x, y, i)
    [] elem_idx = 20 -> ICE_ACTION(s, x, y, i)
    [] elem_idx = 21 -> CHILLED_ICE_ACTION(s, x, y, i)
    [] elem_idx = 22 -> LAVA_ACTION(s, x, y, i)
    [] elem_idx = 23 -> ROCK_ACTION(s, x, y, i)
    [] elem_idx = 24 -> STEAM_ACTION(s, x, y, i)
    [] elem_idx = 25 -> CRYO_ACTION(s, x, y, i)
    [] elem_idx = 26 -> MYSTERY_ACTION(s, x, y, i)
    [] elem_idx = 27 -> METHANE_ACTION(s, x, y, i)
    [] elem_idx = 28 -> SOIL_ACTION(s, x, y, i)
    [] elem_idx = 29 -> WET_SOIL_ACTION(s, x, y, i)
    [] elem_idx = 30 -> BRANCH_ACTION(s, x, y, i)
    [] elem_idx = 31 -> LEAF_ACTION(s, x, y, i)
    [] elem_idx = 32 -> POLLEN_ACTION(s, x, y, i)
    [] elem_idx = 33 -> CHARGED_NITRO_ACTION(s, x, y, i)
    [] elem_idx = 34 -> ACID_ACTION(s, x, y, i)
    [] elem_idx = 35 -> THERMITE_ACTION(s, x, y, i)
    [] elem_idx = 36 -> BURNING_THERMITE_ACTION(s, x, y, i)
    [] OTHER -> {Throw(s, "TypeError")}

(***************************************************************************)
(* spigots.js  The spigots.  The canvas of the model is smaller than the   *)
(* 100 columns the four spigots of 25 columns need, so their number,       *)
(* width and height are scaled with it; a spigot is a pair                 *)
(* [elem, size] of SPIGOT_ELEMENTS[i] and SPIGOT_SIZES[i].                 *)
(***************************************************************************)
SPIGOT_HEIGHT == 1        \* spigots.js:42 (10)
MAX_SPIGOT_WIDTH == 1     \* spigots.js:43 (25)
NUM_SPIGOTS == 1          \* spigots.js:44 (4)

\* spigots.js:35
SPIGOT_SIZE_OPTIONS == {0, MAX_SPIGOT_WIDTH}

\* spigots.js:21-34
SPIGOT_ELEMENT_OPTIONS ==
  {SAND, WATER, SALT, OIL, GUNPOWDER, NITRO, NAPALM, CONCRETE, LAVA, CRYO,
   ACID, MYSTERY}

\* spigots.js:39: the elements the spigots start with
SPIGOT_ELEMENTS == <<SAND, WATER, SALT, OIL>>

\* spigots.js:45-48, Math.round(q) being floor(q + 1/2)
SPIGOT_SPACING ==
  ((2 * (width - MAX_SPIGOT_WIDTH * NUM_SPIGOTS) + (NUM_SPIGOTS + 1))
     \div (2 * (NUM_SPIGOTS + 1))) + MAX_SPIGOT_WIDTH

\* spigots.js:49-50
SPIGOTS_ENABLED ==
  MAX_SPIGOT_WIDTH * NUM_SPIGOTS <= width /\ SPIGOT_HEIGHT <= height

\* spigots.js:70-75: the pixels of a spigot from (w, h) on, row by row
RECURSIVE spigotPour(_, _, _, _, _, _)
spigotPour(s, elem, spigotLeft, spigotRight, w, h) ==
  IF h = SPIGOT_HEIGHT \/ spigotLeft = spigotRight THEN {s}
  ELSE IF w = spigotRight
    THEN spigotPour(s, elem, spigotLeft, spigotRight, spigotLeft, h + 1)
  ELSE UNION {spigotPour(PutIf(o.ret, o.st, w + h * width, elem),
                         elem, spigotLeft, spigotRight, w + 1, h)
                : o \in RandLess(s, 10)}

\* spigots.js:63-76: the spigots from the i-th on (i counts from 0)
RECURSIVE spigotLoop(_, _, _)
spigotLoop(s, sp, i) ==
  LET spigotLeft == SPIGOT_SPACING * (i + 1) - MAX_SPIGOT_WIDTH
      spigotRight == spigotLeft + sp[i + 1].size
  IN IF i = NUM_SPIGOTS THEN {s}
     ELSE IF spigotLeft < 0 THEN spigotLoop(s, sp, i + 1)
     ELSE IF spigotRight > MAX_X_IDX THEN {s}
     ELSE UNION {spigotLoop(t, sp, i + 1)
                   : t \in spigotPour(s, sp[i + 1].elem, spigotLeft,
                                      spigotRight, spigotLeft, 0)}

\* spigots.js:59-77
updateSpigots(s, sp) == IF ~SPIGOTS_ENABLED THEN {s} ELSE spigotLoop(s, sp, 0)

(***************************************************************************)
(* particles.js:825-915  updateParticles.  The particle canvas is what the *)
(* actions drew on a black canvas: each pixel is black, a colour an        *)
(* action drew with (s.drawn), or the blend that anti-aliasing leaves at   *)
(* the edge of a shape, which is no colour of the game.                    *)
(***************************************************************************)
aliasingSearchDistance == 3
BLACK == <<255, 0>>       \* 0xff000000
ALIASED == <<255, 4>>     \* some blend of a drawn colour and black

\* the pixels of the particle canvas that are not black, at most
MaxParticlePixels == 2

\* an event of a tick, for the history: <<kind, a, b, c, d>>
Event(s, e) == [s EXCEPT !.log = Append(@, e)]

\* particles.js:575, 598-601: the opaque colour a particle draws with
rgbaColor(me) == <<255, me.color[2]>>

RECURSIVE particleLoopNextAfterAction(_, _)
particleLoopNextAfterAction(s, particle) ==
  IF particle = NULL \/ s.threw # "" THEN {s}
  ELSE LET me == s.ps.p[particle]
           s1 == [Event(s, <<"action", particle, me.type,
                             me.actionIterations + 1, 0>>)
                    EXCEPT !.ps.p[particle].actionIterations = @ + 1]
       IN UNION {particleLoopNextAfterAction(t, t.ps.p[particle].next)
                   : t \in particleAction(s1, particle)}

\* particleLoop without `particle.actionIterations++`
RECURSIVE particleLoopNoCount(_, _)
particleLoopNoCount(s, particle) ==
  IF particle = NULL \/ s.threw # "" THEN {s}
  ELSE LET next == s.ps.p[particle].next
           me == s.ps.p[particle]
           s1 == [Event(s, <<"action", particle, me.type,
                             me.actionIterations, 0>>)
                    EXCEPT !.drawn = @ \cup {rgbaColor(me)}]
       IN UNION {particleLoopNoCount(
                   [t EXCEPT !.drawn = @ \cup {rgbaColor(t.ps.p[particle])}],
                   next)
                   : t \in particleAction(s1, particle)}

\* particles.js:838-845: the loop over the active list, from particle on
RECURSIVE particleLoop(_, _)
particleLoop(s, particle) ==
  IF particle = NULL \/ s.threw # "" THEN {s}
  ELSE LET next == s.ps.p[particle].next
           me == s.ps.p[particle]
           s1 == [Event(s, <<"action", particle, me.type,
                             me.actionIterations + 1, 0>>)
                    EXCEPT !.ps.p[particle].actionIterations = @ + 1,
                           !.drawn = @ \cup {rgbaColor(me)}]
       IN UNION {particleLoop([t EXCEPT !.drawn =
                                 @ \cup {rgbaColor(t.ps.p[particle])}], next)
                   : t \in particleAction(s1, particle)}

\* the particle canvases getImageData can return (particles.js:848-854)
particleCanvases(s) ==
  {c \in [DOMAIN s.grid -> {BLACK, ALIASED} \cup s.drawn] :
     Cardinality({i \in DOMAIN s.grid : c[i] # BLACK}) <= MaxParticlePixels}

paintColorAsDrawn(canvas, x, y, i) ==
  IF canvas[i] = BLACK THEN undefined ELSE canvas[i]

\* particles.js:872-909: the colour copied to cell i = x + y * width, or
\* undefined when the cell is left alone
paintColor(canvas, x, y, i) ==
  LET d == aliasingSearchDistance
      particleColor == canvas[i]
      found(c) == c \in PAINTABLE_PARTICLE_COLORS
  IN IF particleColor = BLACK THEN undefined
     ELSE IF found(particleColor) THEN particleColor
     ELSE IF x - d >= 0 /\ found(Read(canvas, i - d))
       THEN Read(canvas, i - d)
     ELSE IF x + d <= MAX_X_IDX /\ found(Read(canvas, i + d))
       THEN Read(canvas, i + d)
     ELSE IF y - d >= 0 /\ found(Read(canvas, i - d * width))
       THEN Read(canvas, i - d * width)
     ELSE IF y + d <= MAX_Y_IDX /\ found(Read(canvas, i + d * width))
       THEN Read(canvas, i + d * width)
     ELSE undefined

\* particles.js:858-914: move the particle canvas to the grid
paintParticles(s, canvas) ==
  [s EXCEPT !.grid =
     [i \in DOMAIN s.grid |->
        LET c == paintColor(canvas, i % width, i \div width, i)
        IN IF c = undefined THEN s.grid[i] ELSE c]]

\* particles.js:825-915
updateParticles(s) ==
  IF s.ps.activeHead = NULL \/ s.threw # "" THEN {s}
  ELSE UNION {IF t.threw # "" THEN {t}
              ELSE {paintParticles(t, canvas) : canvas \in particleCanvases(t)}
                : t \in particleLoop(s, s.ps.activeHead)}

(***************************************************************************)
(* game.js:100-154  updateGame: the spigots, the particles, then the       *)
(* rules of the cells, bottom row first, the rows scanned in alternating   *)
(* directions.  An exception ends the tick where it is thrown.             *)
(***************************************************************************)
\* game.js:128-129, 142-143: the index of the rule of elem
elemIdxOf(elem) == IF elem = undefined THEN 0 ELSE ElemIdx(elem)

visitCellAlwaysDispatch(s, x, Y, i) ==
  LET elem == Read(s.grid, i)
      s1 == Event(s, <<"visit", i, x, Y, elemIdxOf(elem)>>)
  IN elementAction(Event(s1, <<"dispatch", i, x, Y, elemIdxOf(elem)>>),
                   elemIdxOf(elem), x, Y, i)

\* game.js:126-133, 140-147: one cell of a row
visitCell(s, x, Y, i) ==
  LET elem == Read(s.grid, i)
      s1 == Event(s, <<"visit", i, x, Y, elemIdxOf(elem)>>)
  IN IF elem = BACKGROUND THEN {s1}
     ELSE elementAction(Event(s1, <<"dispatch", i, x, Y, elemIdxOf(elem)>>),
                        elemIdxOf(elem), x, Y, i)

\* scanRow without the `i++` of line 134 and the `i--` of line 147
RECURSIVE scanRowNoCorrection(_, _, _, _, _)
scanRowNoCorrection(s, x, Y, i, dx) ==
  IF x = (IF dx = -1 THEN -1 ELSE width) \/ s.threw # "" THEN {Out(s, i)}
  ELSE UNION {scanRowNoCorrection(t, x + dx, Y, i + dx, dx) : t \in visitCell(s, x, Y, i)}

\* game.js:123-148: one row, from x in steps of dx (-1: the right-to-left
\* loop of lines 123-134, 1: the left-to-right loop of lines 136-147, whose
\* bodies are the same); ret is i after the loop and its correction
RECURSIVE scanRow(_, _, _, _, _)
scanRow(s, x, Y, i, dx) ==
  IF x = (IF dx = -1 THEN -1 ELSE width) \/ s.threw # "" THEN {Out(s, i - dx)}
  ELSE UNION {scanRow(t, x + dx, Y, i + dx, dx) : t \in visitCell(s, x, Y, i)}

scanDirectionOfHeight == height % 2

\* game.js:110: the parity of the rows that are scanned right-to-left
scanDirection == MAX_Y_IDX % 2

\* game.js:120-149: the rows from y up to the top
RECURSIVE scanRows(_, _, _)
scanRows(s, y, i) ==
  IF y = -1 \/ s.threw # "" THEN {s}
  ELSE LET leftward == (y % 2 = scanDirection)
       IN UNION {scanRows(o.st, y - 1, o.ret - width)
                   : o \in scanRow(s, IF leftward THEN MAX_X_IDX ELSE 0, y, i,
                                   IF leftward THEN -1 ELSE 1)}

updateGameScansTwice(s, sp) ==
  UNION {UNION {UNION {scanRows(v, MAX_Y_IDX, MAX_IDX)
                         : v \in scanRows(Event(u, <<"scan", 0, 0, 0, 0>>),
                                          MAX_Y_IDX, MAX_IDX)}
                  : u \in updateParticles(t)}
           : t \in updateSpigots(s, sp)}

\* game.js:100-154
updateGame(s, sp) ==
  UNION {UNION {scanRows(Event(u, <<"scan", 0, 0, 0, 0>>), MAX_Y_IDX, MAX_IDX)
                  : u \in updateParticles(t)}
           : t \in updateSpigots(s, sp)}

\* clearGameCanvas without particles.inactivateAll()
clearGameCanvasKeepsParticles(s) ==
  [s EXCEPT !.grid = [i \in DOMAIN s.grid |-> BACKGROUND]]

\* loadGameCanvas without the test of gamestateSaved
loadGameCanvasUnguarded(s, saved, save) ==
  [inactivateAll(s) EXCEPT !.grid = [i \in DOMAIN s.grid |-> save[i]]]

\* game.js:175-185
clearGameCanvas(s) ==
  [inactivateAll(s) EXCEPT !.grid = [i \in DOMAIN s.grid |-> BACKGROUND]]

saveCopyButLast(grid, save) ==
  [i \in DOMAIN save |-> IF i = MAX_IDX /\ i > 0 THEN save[i] ELSE grid[i]]

\* game.js:190-200: the new save buffer
saveCopy(grid, save) == [i \in DOMAIN save |-> grid[i]]

loadGameCanvasKeepsParticles(s, saved, save) ==
  IF ~saved THEN s
  ELSE [s EXCEPT !.grid = [i \in DOMAIN s.grid |-> save[i]]]

\* game.js:202-210
loadGameCanvas(s, saved, save) ==
  IF ~saved THEN s
  ELSE [inactivateAll(s) EXCEPT !.grid = [i \in DOMAIN s.grid |-> save[i]]]

\* part_002:328-438: drawStroke with the cursor down; mask is the cells the
\* stroke covers
drawStroke(s, color, OVERWRITE_ENABLED, mask) ==
  LET overwrite == OVERWRITE_ENABLED \/ color = BACKGROUND
  IN [s EXCEPT !.grid =
        [i \in DOMAIN s.grid |->
           IF i \in mask /\ (overwrite \/ s.grid[i] = BACKGROUND)
             THEN color ELSE s.grid[i]]]

(***************************************************************************)
(* game.js:227-289  mainLoop.  A frame state f is the machine state f.st   *)
(* with the frame debt f.frameDebt; times are in half milliseconds, since  *)
(* loopMiscTimeMs is 3.5.                                                  *)
(***************************************************************************)
\* part_002:804-809: updateUserStroke; the cursor is down on the cells of
\* cursor.mask or it is up
updateUserStroke(s, cursor) ==
  LET s1 == Event(s, <<"updateUserStroke", 0, 0, 0, 0>>)
  IN IF cursor.isDown
       THEN drawStroke(s1, cursor.color, cursor.OVERWRITE_ENABLED, cursor.mask)
       ELSE s1

drawNothing(s) == s

\* game.js:156-173: draw puts the grid on the screen
drawCanvas(s) == Event(s, <<"draw", 0, 0, 0, 0>>)

clampDebtAtSix(debt) == IF debt < 6 * FrameUnit THEN debt ELSE 6 * FrameUnit

\* game.js:256: Math.min(frameDebt, 5)
clampDebt(debt) == IF debt < 5 * FrameUnit THEN debt ELSE 5 * FrameUnit

\* game.js:100-154 called from mainLoop: updateGame with its frameDebt--
\* (line 153), which an exception skips
updateGameOwed(f, sp) ==
  {IF t.threw # "" THEN [st |-> t, frameDebt |-> f.frameDebt]
   ELSE [st |-> Event(t, <<"frameDebt--", f.frameDebt - FrameUnit, 0, 0, 0>>),
         frameDebt |-> f.frameDebt - FrameUnit]
     : t \in updateGame(Event(f.st, <<"updateGame", f.frameDebt, 0, 0, 0>>),
                        sp)}

\* the times performance.now() can measure for one updateGame
UpdateTimes2 == {0, 40}

\* game.js:265-285: the updates of a frame.  mode "first": at the test of
\* line 265, before the update of line 268 or 273; "loop": at the test of
\* the loop of lines 281-284; "done": the single update of line 268 has run
RECURSIVE updates(_, _, _, _, _, _)
updates(f, sp, mode, deltaMs2, timeRemaining2, updateTimeMs2) ==
  IF \/ f.st.threw # ""
     \/ mode = "done"
     \/ mode = "first" /\ ~(f.frameDebt >= FrameUnit)
     \/ mode = "loop"
          /\ ~(timeRemaining2 > updateTimeMs2 /\ f.frameDebt >= FrameUnit)
    THEN {f}
  ELSE LET after(g) ==
             IF mode = "loop"
               THEN {[f |-> g, mode |-> "loop",
                      timeRemaining2 |-> timeRemaining2 - updateTimeMs2,
                      updateTimeMs2 |-> updateTimeMs2]}
             ELSE IF f.frameDebt < 2 * FrameUnit
               THEN {[f |-> g, mode |-> "done", timeRemaining2 |-> 0,
                      updateTimeMs2 |-> 0]}
             ELSE {[f |-> g, mode |-> "loop",
                    timeRemaining2 |-> deltaMs2 - loopMiscTime2 - u,
                    updateTimeMs2 |-> u] : u \in UpdateTimes2}
       IN UNION {updates(n.f, sp, n.mode, deltaMs2, n.timeRemaining2,
                         n.updateTimeMs2)
                   : n \in UNION {after(g) : g \in updateGameOwed(f, sp)}}

\* game.js:243-256: the frame debt once the elapsed time is added
owed(fps, debt, deltaMs) ==
  clampDebt(IF fps > 0 THEN debt + deltaMs * fps ELSE debt)

\* game.js:243-288: the frame after the early returns
frame(s, sp, fps, debt, deltaMs, cursor) ==
  {IF f.st.threw # "" THEN f ELSE [f EXCEPT !.st = drawCanvas(@)]
     : f \in updates([st |-> updateUserStroke(s, cursor),
                      frameDebt |-> owed(fps, debt, deltaMs)],
                     sp, "first", 2 * deltaMs, 0, 0)}

(***************************************************************************)
(* The state machine.  Mach is the machine state a handler starts from and *)
(* Commit(s) stores the one it ends in.                                    *)
(***************************************************************************)
Mach ==
  [grid |-> gameImagedata32, ps |-> particles, threw |-> "",
   nReq |-> 0, nFail |-> 0, nInit |-> 0, rnd |-> <<>>,
   log |-> <<>>, drawn |-> {}]

Commit(s) ==
  /\ gameImagedata32' = s.grid
  /\ particles' = s.ps
  /\ threw' = IF threw = "" THEN s.threw ELSE threw

NoCall == [op |-> "none"]
NoLog == <<>>

\* game.js:65-92 init(), elements.js:213-262 initElements() and
\* particles.js:769-823 initParticles() on a w x h canvas
Boot(w, h) ==
  /\ width = w
  /\ height = h
  /\ gameImagedata32 = [c \in 0..(w * h - 1) |-> BACKGROUND]
  /\ saveGameImagedata32 = [c \in 0..(w * h - 1) |-> BACKGROUND]
  /\ gamestateSaved = FALSE
  /\ particles = initParticles
  /\ spigots = [k \in 1..NUM_SPIGOTS |->
                  [elem |-> SPIGOT_ELEMENTS[k], size |-> MAX_SPIGOT_WIDTH]]
  /\ threw = ""
  /\ nextElemIdx = NUM_ELEMENTS
  /\ call = NoCall
  /\ tickLog = NoLog
  /\ fpsSetting = DEFAULT_FPS
  /\ lastLoop = 0
  /\ frameDebt = 0
  /\ gridAtSave = [c \in 0..(w * h - 1) |-> BACKGROUND]
  /\ budget = [strokes |-> MaxStrokes, ticks |-> MaxTicks, ops |-> MaxPoolOps,
               menu |-> {}]

(***************************************************************************)
(* SpecColor: the script elements.js defining its colours, one call of     *)
(* __inGameColor after the other, starting with __next_elem_idx = 0.       *)
(***************************************************************************)
ChannelSamples == {0, 3, 130, 252, 255}

InitColor ==
  /\ width = 1
  /\ height = 1
  /\ gameImagedata32 = [c \in {0} |-> <<0, 0>>]
  /\ saveGameImagedata32 = [c \in {0} |-> <<0, 0>>]
  /\ gamestateSaved = FALSE
  /\ particles = initParticles
  /\ spigots = <<>>
  /\ threw = ""
  /\ nextElemIdx = 0
  /\ call = NoCall
  /\ tickLog = NoLog
  /\ fpsSetting = undefined
  /\ lastLoop = 0
  /\ frameDebt = 0
  /\ gridAtSave = [c \in {0} |-> <<0, 0>>]
  /\ budget = [strokes |-> 0, ticks |-> 0, ops |-> 0, menu |-> {}]

\* elements.js:63-80, one call __inGameColor(r, g, b)
DefineColor ==
  /\ nextElemIdx < MaxElemIdx
  /\ \E r \in ChannelSamples, g \in ChannelSamples, b \in ChannelSamples :
       call' = [op |-> "__inGameColor", idx |-> nextElemIdx,
                r |-> r, g |-> g, b |-> b,
                ret |-> InGameColor(nextElemIdx, r, g, b)]
  /\ nextElemIdx' = nextElemIdx + 1
  /\ UNCHANGED <<dimVars, loopVars, gameImagedata32, saveVars, particles, threw,
                 tickLog, budget>>

NextColor == DefineColor

SpecColor == InitColor /\ [][NextColor]_vars

\* C6: for every index 0..63 and every r, g, b in 0..255 the colour that
\* __inGameColor returns decodes back to the index, has alpha 0xff and
\* differs from (r, g, b) only in the two low bits of each channel.
C6_InGameColorRoundTrip ==
  (call.op = "__inGameColor" /\ call.idx \in 0..63)
    => /\ ElemIdx(call.ret) = call.idx
       /\ Alpha(call.ret) = 255
       /\ Red(call.ret) \div 4 = call.r \div 4
       /\ Green(call.ret) \div 4 = call.g \div 4
       /\ Blue(call.ret) \div 4 = call.b \div 4

C6_Witness ==
  /\ call.op = "__inGameColor"
  /\ call.idx = 63
  /\ call.r = 252 /\ call.g = 0 /\ call.b = 130
  /\ Red(call.ret) = 255 /\ Green(call.ret) = 3 /\ Blue(call.ret) = 131

(***************************************************************************)
(* SpecPool: the ParticleList after initParticles, driven through its      *)
(* methods in any order, as the element rules, the particle actions and    *)
(* the clear / load buttons drive it.                                      *)
(***************************************************************************)
RECURSIVE Walk(_, _, _)
Walk(pp, id, fuel) ==
  IF id = NULL \/ fuel = 0 THEN <<>>
  ELSE <<id>> \o Walk(pp, pp[id].next, fuel - 1)

\* the particles reached from a head by following next (one more than
\* there are particles, so that a cycle shows as a list that is too long)
ListFrom(ps, head) == Walk(ps.p, head, Cardinality(DOMAIN ps.p) + 1)
ActiveList(ps) == ListFrom(ps, ps.activeHead)
InactiveList(ps) == ListFrom(ps, ps.inactiveHead)
Range(seq) == {seq[k] : k \in 1..Len(seq)}

InitPool == Boot(1, 1)

PoolCommit(s) ==
  /\ Commit(s)
  /\ budget' = [budget EXCEPT !.ops = @ - 1]
  /\ UNCHANGED <<dimVars, loopVars, saveVars, nextElemIdx, tickLog>>

\* a rule or an init callback calls particles.addActiveParticle(type, ...)
PoolAdd ==
  /\ budget.ops > 0
  /\ \E type \in ParticleTypes :
       \E o \in addActiveParticle(Mach, type) :
         /\ PoolCommit(o.st)
         /\ call' = [op |-> "addActiveParticle", type |-> type,
                     particle |-> o.ret, nInit |-> o.st.nInit,
                     prevOp |-> call.op]

\* an action callback calls particles.makeParticleInactive(particle) on an
\* active particle
PoolFree ==
  /\ budget.ops > 0
  /\ \E particle \in DOMAIN particles.p :
       /\ particles.p[particle].active
       /\ PoolCommit(makeParticleInactive(Mach, particle))
       /\ call' = [op |-> "makeParticleInactive", type |-> UNKNOWN_PARTICLE,
                   particle |-> particle, nInit |-> 0, prevOp |-> call.op]

\* GUNPOWDER_ACTION calls particles.reinitializeParticle(particle, newType)
PoolReinit ==
  /\ budget.ops > 0
  /\ \E particle \in DOMAIN particles.p, newType \in ParticleTypes :
       \E t \in reinitializeParticle(Mach, particle, newType) :
         /\ PoolCommit(t)
         /\ call' = [op |-> "reinitializeParticle", type |-> newType,
                     particle |-> particle, nInit |-> t.nInit,
                     prevOp |-> call.op]

\* clearGameCanvas and loadGameCanvas call particles.inactivateAll()
PoolInactivateAll ==
  /\ budget.ops > 0
  /\ PoolCommit(inactivateAll(Mach))
  /\ call' = [op |-> "inactivateAll", type |-> UNKNOWN_PARTICLE,
              particle |-> NULL, nInit |-> 0, prevOp |-> call.op]

\* particles.js:842-843: updateParticles runs the action of an active
\* particle
PoolAction ==
  /\ budget.ops > 0
  /\ \E particle \in DOMAIN particles.p :
       /\ particles.p[particle].active
       /\ \E t \in particleAction(
                     [Mach EXCEPT !.ps.p[particle].actionIterations = @ + 1],
                     particle) :
            /\ PoolCommit(t)
            /\ call' = [op |-> "particleAction",
                        type |-> particles.p[particle].type,
                        particle |-> particle, nInit |-> t.nInit,
                        prevOp |-> call.op]

NextPool == PoolAdd \/ PoolFree \/ PoolReinit \/ PoolInactivateAll \/ PoolAction

SpecPool == InitPool /\ [][NextPool]_vars

\* C1: after any sequence of addActiveParticle, makeParticleInactive (of an
\* active particle), reinitializeParticle and inactivateAll on the pool that
\* initParticles built, activeSize + inactiveSize is the number of particles,
\* each size is the number of particles reached from its head through next,
\* and the two lists are disjoint and hold every particle exactly once.
C1_PoolPartition ==
  LET A == ActiveList(particles)
      I == InactiveList(particles)
  IN /\ particles.activeSize + particles.inactiveSize = MAX_NUM_PARTICLES
     /\ Len(A) = particles.activeSize
     /\ Len(I) = particles.inactiveSize
     /\ Range(A) \cap Range(I) = {}
     /\ Range(A) \cup Range(I) = ParticleIds
     /\ Cardinality(Range(A)) = Len(A)
     /\ Cardinality(Range(I)) = Len(I)

C1_Witness ==
  /\ call.op = "addActiveParticle"
  /\ call.prevOp = "makeParticleInactive"
  /\ particles.activeSize >= 1
  /\ particles.inactiveSize >= 1
  /\ particles.activeHead # particles.inactiveHead

\* C2: for every particle type t, particleCounts[t] is the number of
\* particles of type t on the active list, after every pool operation, init
\* callback (the spokes of MAGIC1_PARTICLE_INIT included) and particle action.
C2_CountsMatchActiveList ==
  \A t \in ParticleTypes :
    particles.particleCounts[t] =
      Cardinality({id \in Range(ActiveList(particles)) :
                     particles.p[id].type = t})

C2_Witness ==
  /\ call.op = "reinitializeParticle"
  /\ call.type = MAGIC1_PARTICLE
  /\ threw = ""
  /\ particles.particleCounts[MAGIC1_PARTICLE] >= 2
  /\ particles.particleCounts[UNKNOWN_PARTICLE] = 0

\* C3: when no particle is inactive addActiveParticle returns null, changes
\* nothing of the pool and runs no init callback; the addActiveParticle that
\* follows a makeParticleInactive returns a particle that is on the active
\* list with active = true.
C3_ExhaustedPoolRefuses ==
  [][(budget'.ops # budget.ops /\ call'.op = "addActiveParticle")
       => /\ particles.inactiveSize = 0
               => /\ call'.particle = NULL
                  /\ particles' = particles
                  /\ call'.nInit = 0
                  /\ threw' = threw
          /\ call.op = "makeParticleInactive"
               => /\ call'.particle # NULL
                  /\ particles'.p[call'.particle].active
                  /\ call'.particle \in Range(ActiveList(particles'))]_vars

C3_Witness ==
  /\ call.op = "addActiveParticle"
  /\ call.particle = NULL
  /\ particles.inactiveSize = 0

(***************************************************************************)
(* SpecPrim and SpecRule: one primitive, or one rule or particle action,   *)
(* applied once to a canvas the user has painted and a pool that earlier   *)
(* rules have drawn from.                                                  *)
(***************************************************************************)
MaxCells == 4
MaxRuleCells == 3

\* the canvas shapes of at most n cells
Shapes(n) ==
  {d \in (1..MaxWidth) \X (1..MaxHeight) : d[1] * d[2] <= n}

\* the machine state of a pool alone
PoolMach(ps) ==
  [grid |-> <<>>, ps |-> ps, threw |-> "", nReq |-> 0, nFail |-> 0,
   nInit |-> 0, rnd |-> <<>>, log |-> <<>>, drawn |-> {}]

\* the pools after k successful addActiveParticle of the given types
RECURSIVE PoolsAfter(_, _)
PoolsAfter(k, types) ==
  IF k = 0 THEN {initParticles}
  ELSE UNION {{o.st.ps : o \in addActiveParticle(PoolMach(ps), type)}
                : ps \in PoolsAfter(k - 1, types), type \in types}

\* a scenario: d the shape, palette the elements painted, types the
\* particles active, ops the number of operations applied
Scenario(d, palette, types, ops) ==
  /\ width = d[1]
  /\ height = d[2]
  /\ gameImagedata32 \in [0..(d[1] * d[2] - 1) -> palette]
  /\ saveGameImagedata32 = [c \in 0..(d[1] * d[2] - 1) |-> BACKGROUND]
  /\ gamestateSaved = FALSE
  /\ \E k \in 0..MAX_NUM_PARTICLES : particles \in PoolsAfter(k, types)
  /\ spigots = <<>>
  /\ threw = ""
  /\ nextElemIdx = NUM_ELEMENTS
  /\ call = NoCall
  /\ tickLog = NoLog
  /\ fpsSetting = DEFAULT_FPS
  /\ lastLoop = 0
  /\ frameDebt = 0
  /\ gridAtSave = [c \in 0..(d[1] * d[2] - 1) |-> BACKGROUND]
  /\ budget = [strokes |-> 0, ticks |-> 0, ops |-> ops, menu |-> {}]

PrimPalettes ==
  {{BACKGROUND, SAND, WALL}, {BACKGROUND, WATER, SAND},
   {BACKGROUND, LAVA, ROCK}, {FIRE, WATER, SALT_WATER, BURNING_THERMITE}}

InitPrim ==
  \E d \in Shapes(MaxCells), palette \in PrimPalettes :
    Scenario(d, palette, {}, 1)

RuleScenarios ==
  {[palette |-> pal, types |-> {NITRO_PARTICLE}] :
     pal \in {{BACKGROUND, FIRE, NITRO}, {BACKGROUND, FIRE, NAPALM},
              {BACKGROUND, FIRE, C4}, {BACKGROUND, FIRE, METHANE},
              {BACKGROUND, FIRE, GUNPOWDER}, {BACKGROUND, FIRE, CHARGED_NITRO},
              {BACKGROUND, OIL, LAVA}, {SAND, SALT, MYSTERY},
              {BACKGROUND, POLLEN, MYSTERY}, {BACKGROUND, SOIL, WET_SOIL},
              {BACKGROUND, WALL, BURNING_THERMITE}}}
  \cup {[palette |-> {BACKGROUND, WALL}, types |-> {TREE_PARTICLE}]}

InitRule ==
  \E d \in Shapes(MaxRuleCells), sc \in RuleScenarios :
    Scenario(d, sc.palette, sc.types, 1)

RuleCommit(s) ==
  /\ Commit(s)
  /\ budget' = [budget EXCEPT !.ops = @ - 1]
  /\ UNCHANGED <<dimVars, loopVars, saveVars, nextElemIdx, tickLog>>

\* the chances the rules pass to doGravity (elements.js:299, 759, 453) and
\* the draws around them
GravityChances == {95, 99, 100}
GravityDraws == {0, 94, 95, 98, 99}

\* a rule calls doGravity(x, y, i, fallAdjacent, chance) on a cell that holds
\* an element, and random() returns draw
RuleGravity ==
  /\ budget.ops > 0
  /\ \E i \in Cells, fallAdjacent \in BOOLEAN, chance \in GravityChances,
        draw \in GravityDraws :
       /\ gameImagedata32[i] # BACKGROUND
       /\ \E o \in doGravity([Mach EXCEPT !.rnd = <<draw>>],
                             i % width, i \div width, i, fallAdjacent, chance) :
            /\ RuleCommit(o.st)
            /\ call' = [op |-> "doGravity", x |-> i % width,
                        y |-> i \div width, i |-> i,
                        fallAdjacent |-> fallAdjacent, chance |-> chance,
                        draw |-> draw, ret |-> o.ret,
                        pre |-> gameImagedata32, prePs |-> particles]

\* the chances the rules pass to doDensitySink (elements.js:276, 764) and
\* the draws around them
SinkChances == {25, 95}
SinkDraws == {24, 25, 95}

\* the elements the rules sink through here (elements.js:276, 767)
SinkThrough == {WATER, LAVA}

\* a rule calls doDensitySink(x, y, i, heavierThan, sinkAdjacent, chance) on
\* a cell that holds an element, and random() returns draw
RuleDensitySink ==
  /\ budget.ops > 0
  /\ \E i \in Cells, heavierThan \in SinkThrough, sinkAdjacent \in BOOLEAN,
        chance \in SinkChances, draw \in SinkDraws :
       /\ gameImagedata32[i] # BACKGROUND
       /\ \E o \in doDensitySink([Mach EXCEPT !.rnd = <<draw>>],
                                 i % width, i \div width, i, heavierThan,
                                 sinkAdjacent, chance) :
            /\ RuleCommit(o.st)
            /\ call' = [op |-> "doDensitySink", x |-> i % width,
                        y |-> i \div width, i |-> i,
                        heavierThan |-> heavierThan,
                        sinkAdjacent |-> sinkAdjacent, chance |-> chance,
                        draw |-> draw, ret |-> o.ret,
                        pre |-> gameImagedata32]

\* the draws around the chance of the water test of FIRE_ACTION
\* (elements.js:302)
ExtinguishDraws == {0, 79, 80}

\* updateGame runs FIRE_ACTION on a cell that holds FIRE, up to the end of
\* its water test (elements.js:301-313), and random() returns draw
RuleFireWater ==
  /\ budget.ops > 0
  /\ \E i \in Cells, draw \in ExtinguishDraws :
       /\ gameImagedata32[i] = FIRE
       /\ \E o \in fireWater([Mach EXCEPT !.rnd = <<draw>>],
                             i % width, i \div width, i) :
            /\ RuleCommit(o.st)
            /\ call' = [op |-> "FIRE_ACTION.water", x |-> i % width,
                        y |-> i \div width, i |-> i, draw |-> draw,
                        ret |-> o.ret, pre |-> gameImagedata32]

\* a neighbour query calls __pickRandValid(a, b) on two candidates, each a
\* cell or -1; rets are the values the call can return
RulePickRandValid ==
  /\ budget.ops > 0
  /\ \E a \in Cells \cup {-1}, b \in Cells \cup {-1} :
       \E o \in pickRandValid(Mach, a, b) :
         /\ RuleCommit(o.st)
         /\ call' = [op |-> "__pickRandValid", a |-> a, b |-> b,
                     ret |-> o.ret,
                     rets |-> {p.ret : p \in pickRandValid(Mach, a, b)},
                     pre |-> gameImagedata32]

\* a rule calls bordering(x, y, i, type) for a cell and an element of the
\* canvas
RuleBordering ==
  /\ budget.ops > 0
  /\ \E i \in Cells, type \in {gameImagedata32[c] : c \in Cells} :
       \E o \in bordering(Mach, i % width, i \div width, i, type) :
         /\ RuleCommit(o.st)
         /\ call' = [op |-> "bordering", x |-> i % width,
                     y |-> i \div width, i |-> i, type |-> type,
                     ret |-> o.ret, pre |-> gameImagedata32]

NextPrim ==
  \/ RuleGravity
  \/ RuleDensitySink
  \/ RuleFireWater
  \/ RulePickRandValid
  \/ RuleBordering

SpecPrim == InitPrim /\ [][NextPrim]_vars

\* game.js:133-137: updateGame runs the rule of the element in cell i
RuleElement ==
  /\ budget.ops > 0
  /\ \E i \in Cells :
       /\ gameImagedata32[i] # BACKGROUND
       /\ \E t \in elementAction(Mach, ElemIdx(gameImagedata32[i]),
                                 i % width, i \div width, i) :
            /\ RuleCommit(t)
            /\ call' = [op |-> "elementAction", elem |-> gameImagedata32[i],
                        x |-> i % width, y |-> i \div width, i |-> i,
                        particle |-> NULL, nReq |-> t.nReq, nFail |-> t.nFail,
                        pre |-> gameImagedata32, prePs |-> particles]

\* particles.js:842-843: updateParticles runs the action of an active
\* particle
RuleParticleAction ==
  /\ budget.ops > 0
  /\ \E particle \in DOMAIN particles.p :
       /\ particles.p[particle].active
       /\ \E t \in particleAction(
                     [Mach EXCEPT !.ps.p[particle].actionIterations = @ + 1],
                     particle) :
            /\ RuleCommit(t)
            /\ call' = [op |-> "particleAction", elem |-> BACKGROUND,
                        x |-> 0, y |-> 0, i |-> 0,
                        particle |-> particle, nReq |-> t.nReq,
                        nFail |-> t.nFail,
                        pre |-> gameImagedata32, prePs |-> particles]

NextRule == RuleElement \/ RuleParticleAction

SpecRule == InitRule /\ [][NextRule]_vars

\* C10: doGravity on cell (x,y,i) with a draw strictly below chance: on the
\* bottom row the cell becomes BACKGROUND and the call returns true;
\* otherwise, if the cell directly below holds BACKGROUND, afterwards that
\* cell holds the element, cell i holds BACKGROUND and the call returns true.
\* With a draw >= chance the grid is unchanged and the call returns false.
C10_DoGravity ==
  call.op = "doGravity" =>
    LET i == call.i
        elem == call.pre[i]
    IN /\ (call.draw < call.chance /\ call.y = MAX_Y_IDX)
            => /\ gameImagedata32[i] = BACKGROUND
               /\ call.ret = TRUE
       /\ (call.draw < call.chance /\ call.y # MAX_Y_IDX
             /\ call.pre[i + width] = BACKGROUND)
            => /\ gameImagedata32[i + width] = elem
               /\ gameImagedata32[i] = BACKGROUND
               /\ call.ret = TRUE
       /\ call.draw >= call.chance
            => /\ gameImagedata32 = call.pre
               /\ call.ret = FALSE

C10_Witness ==
  /\ call.op = "doGravity"
  /\ call.draw = 94 /\ call.chance = 95
  /\ call.y = 0 /\ height = 2
  /\ call.pre[call.i] = SAND
  /\ call.pre[call.i + width] = BACKGROUND
  /\ gameImagedata32[call.i + width] = SAND
  /\ gameImagedata32[call.i] = BACKGROUND
  /\ call.ret = TRUE

\* the pool proper: the two lists, their sizes and the counts per type
PoolOf(ps) ==
  [activeHead |-> ps.activeHead, activeSize |-> ps.activeSize,
   inactiveHead |-> ps.inactiveHead, inactiveSize |-> ps.inactiveSize,
   particleCounts |-> ps.particleCounts,
   links |-> [id \in DOMAIN ps.p |->
                <<ps.p[id].active, ps.p[id].type, ps.p[id].next,
                  ps.p[id].prev>>]]

\* the rules of C9 whose own cell becomes FIRE when the allocation fails
FireOnRefusal == {NAPALM, C4, METHANE}

\* an operation during which addActiveParticle refused a request
Refused ==
  /\ call.op \in {"elementAction", "particleAction"}
  /\ call.nFail > 0

\* what C9 says of the grid: the igniting cell of NAPALM, C4 and METHANE
\* becomes FIRE exactly when the allocation fails
C9_FireIffRefused ==
  (call.op = "elementAction" /\ call.elem \in FireOnRefusal /\ call.nReq > 0)
    => (gameImagedata32[call.i] = FIRE <=> call.nFail > 0)

Reverse(seq) == [k \in 1..Len(seq) |-> seq[Len(seq) + 1 - k]]

Without(seq, e) == LET Keep(v) == v # e IN SelectSeq(seq, Keep)

\* TREE_PARTICLE_ACTION on a particle that reaches maxBranches with this
\* action, and so frees itself after the loop over the branches
\* (particles.js:509-512)
C9_TreeAtMaxBranches ==
  /\ call.op = "particleAction"
  /\ call.prePs.p[call.particle].type = TREE_PARTICLE
  /\ call.prePs.p[call.particle].branches + 1
       >= call.prePs.p[call.particle].maxBranches

\* when the pool became exhausted during the operation (the particle whose
\* MAGIC1_PARTICLE_INIT asks for the spokes, the branches of a tree that
\* came before the refused one): the particles that were free were
\* allocated in order, nothing else of the lists changed, but for the tree
\* particle that freed itself
C9_OnlyTheFreeAllocated ==
  LET expected == Reverse(InactiveList(call.prePs)) \o ActiveList(call.prePs)
  IN \/ /\ particles.inactiveSize = 0
        /\ particles.inactiveHead = NULL
        /\ particles.activeSize = MAX_NUM_PARTICLES
        /\ ActiveList(particles) = expected
     \/ /\ C9_TreeAtMaxBranches
        /\ particles.inactiveSize = 1
        /\ InactiveList(particles) = <<call.particle>>
        /\ ActiveList(particles) = Without(expected, call.particle)

\* C9 as stated: when the pool is exhausted a rule or particle action that
\* requests a particle completes without an exception and leaves the pool
\* as it was (lists, sizes and counts); the cell of NAPALM, C4 and METHANE
\* becomes FIRE exactly when the allocation fails.
C9_ExhaustedPoolUnchanged ==
  /\ Refused
       => /\ threw = ""
          /\ IF call.prePs.inactiveSize = 0
               THEN PoolOf(particles) = PoolOf(call.prePs)
               ELSE C9_OnlyTheFreeAllocated
  /\ C9_FireIffRefused

\* C9, amended: as above, except that TREE_PARTICLE_ACTION, refused its
\* branches, still frees the particle it runs on when that particle has
\* reached maxBranches (particles.js:509-512); nothing else of the pool
\* changes.
C9_ExhaustedPoolUnchangedButOwnFree ==
  /\ Refused
       => /\ threw = ""
          /\ IF call.prePs.inactiveSize # 0 THEN C9_OnlyTheFreeAllocated
             ELSE \/ PoolOf(particles) = PoolOf(call.prePs)
                  \/ /\ C9_TreeAtMaxBranches
                     /\ PoolOf(particles)
                          = PoolOf(makeParticleInactive(
                                     PoolMach(call.prePs), call.particle).ps)
  /\ C9_FireIffRefused

C9_Witness ==
  /\ call.op = "elementAction"
  /\ call.elem = NAPALM
  /\ call.prePs.inactiveSize = 0
  /\ call.nFail = 1
  /\ gameImagedata32[call.i] = FIRE
  /\ particles = call.prePs
  /\ threw = ""

(***************************************************************************)
(* SpecGame: the game after init on a canvas of at most MaxGameCells       *)
(* cells (and one three cells wide), driven by animation frames that owe   *)
(* one updateGame, the strokes of the cursor and the clear, save and load  *)
(* buttons.  The user has chosen the spigots in the menu and paints with   *)
(* the elements of budget.menu.  The pacing of the frames (loopVars) is    *)
(* left to SpecLoop.  The model follows a run up to the first exception    *)
(* that escapes a handler.                                                 *)
(***************************************************************************)
MaxCanvasOps == 1
MaxGameCells == 2

\* the elements a session paints with
GameMenus ==
  {{SAND, WATER}, {FIRE, NAPALM}, {FIRE, GUNPOWDER}, {SOIL, WATER},
   {LAVA, OIL}, {WALL, BACKGROUND}}

\* the canvases of these sessions, each with the elements painted on it;
\* the spigots pour on a canvas at least three cells wide only
GameSessions ==
  (Shapes(MaxGameCells) \X GameMenus) \cup {<<(<<3, 1>>), {SAND, WATER}>>}

InitGame ==
  \E session \in GameSessions : LET d == session[1]  menu == session[2] IN
    /\ width = d[1]
    /\ height = d[2]
    /\ gameImagedata32 = [c \in 0..(d[1] * d[2] - 1) |-> BACKGROUND]
    /\ saveGameImagedata32 = [c \in 0..(d[1] * d[2] - 1) |-> BACKGROUND]
    /\ gamestateSaved = FALSE
    /\ particles = initParticles
    /\ spigots \in [1..NUM_SPIGOTS ->
                      [elem : menu \cap SPIGOT_ELEMENT_OPTIONS,
                       size : SPIGOT_SIZE_OPTIONS]
                      \cup {[elem |-> SAND, size |-> 0]}]
    /\ threw = ""
    /\ nextElemIdx = NUM_ELEMENTS
    /\ call = NoCall
    /\ tickLog = NoLog
    /\ fpsSetting = DEFAULT_FPS
    /\ lastLoop = 0
    /\ frameDebt = 0
    /\ gridAtSave = [c \in 0..(d[1] * d[2] - 1) |-> BACKGROUND]
    /\ budget = [strokes |-> MaxStrokes, ticks |-> MaxTicks,
                 clears |-> MaxCanvasOps, saves |-> MaxCanvasOps,
                 loads |-> MaxCanvasOps, menu |-> menu]

\* game.js:100-154: an animation frame runs updateGame
Tick ==
  /\ threw = ""
  /\ budget.ticks > 0
  /\ \E t \in updateGame(Mach, spigots) :
       /\ Commit(t)
       /\ tickLog' = NoLog
       /\ call' = [op |-> "updateGame", saved |-> gamestateSaved]
  /\ budget' = [budget EXCEPT !.ticks = @ - 1]
  /\ UNCHANGED <<dimVars, loopVars, saveVars, nextElemIdx>>

\* part_002:804-809: updateUserStroke with the cursor down on the canvas
UserStroke ==
  /\ threw = ""
  /\ budget.strokes > 0
  /\ \E color \in budget.menu, OVERWRITE_ENABLED \in BOOLEAN,
        mask \in (SUBSET Cells) \ {{}} :
       Commit(drawStroke(Mach, color, OVERWRITE_ENABLED, mask))
  /\ call' = [op |-> "drawStroke", saved |-> gamestateSaved]
  /\ budget' = [budget EXCEPT !.strokes = @ - 1]
  /\ tickLog' = NoLog
  /\ UNCHANGED <<dimVars, loopVars, saveVars, nextElemIdx>>

\* game.js:182-185: the clear button
Clear ==
  /\ threw = ""
  /\ budget.clears > 0
  /\ Commit(clearGameCanvas(Mach))
  /\ call' = [op |-> "clearGameCanvas", saved |-> gamestateSaved]
  /\ budget' = [budget EXCEPT !.clears = @ - 1]
  /\ tickLog' = NoLog
  /\ UNCHANGED <<dimVars, loopVars, saveVars, nextElemIdx>>

\* game.js:190-200: the save button
Save ==
  /\ threw = ""
  /\ budget.saves > 0
  /\ saveGameImagedata32' = saveCopy(gameImagedata32, saveGameImagedata32)
  /\ gamestateSaved' = TRUE
  /\ gridAtSave' = gameImagedata32
  /\ call' = [op |-> "saveGameCanvas", saved |-> gamestateSaved,
              prePs |-> particles]
  /\ budget' = [budget EXCEPT !.saves = @ - 1]
  /\ tickLog' = NoLog
  /\ UNCHANGED <<dimVars, loopVars, gameImagedata32, particles, threw, nextElemIdx>>

\* game.js:202-210: the load button
Load ==
  /\ threw = ""
  /\ budget.loads > 0
  /\ Commit(loadGameCanvas(Mach, gamestateSaved, saveGameImagedata32))
  /\ call' = [op |-> "loadGameCanvas", saved |-> gamestateSaved,
              pre |-> gameImagedata32, prePs |-> particles]
  /\ budget' = [budget EXCEPT !.loads = @ - 1]
  /\ tickLog' = NoLog
  /\ UNCHANGED <<dimVars, loopVars, saveVars, nextElemIdx>>

NextGame == Tick \/ UserStroke \/ Clear \/ Save \/ Load

SpecGame == InitGame /\ [][NextGame]_vars

\* the cells below (x,y) that doDensitySink may sink into: the one directly
\* below and, when sinkAdjacent, the two diagonally below, if on the canvas
CellsBelow(x, y, i, diagonal) ==
  IF y = MAX_Y_IDX THEN {}
  ELSE {i + width}
       \cup (IF diagonal /\ x # 0 THEN {i + width - 1} ELSE {})
       \cup (IF diagonal /\ x # MAX_X_IDX THEN {i + width + 1} ELSE {})

\* C11: doDensitySink on a cell not in the bottom row whose cell directly
\* below holds heavierThan, with a draw strictly below chance, swaps the two
\* cells (the cell below holds the original element, the original cell holds
\* heavierThan, nothing else changes) and returns true; in the bottom row,
\* or when no eligible cell below holds heavierThan, the grid is unchanged
\* and the call returns false.
C11_DoDensitySink ==
  call.op = "doDensitySink" =>
    LET i == call.i
        elem == call.pre[i]
        eligible == {c \in CellsBelow(call.x, call.y, i, call.sinkAdjacent) :
                       call.pre[c] = call.heavierThan}
    IN /\ (call.draw < call.chance /\ call.y # MAX_Y_IDX
             /\ call.pre[i + width] = call.heavierThan)
            => /\ gameImagedata32 =
                    [call.pre EXCEPT ![i + width] = elem,
                                     ![i] = call.heavierThan]
               /\ call.ret = TRUE
       /\ (call.y = MAX_Y_IDX \/ eligible = {})
            => /\ gameImagedata32 = call.pre
               /\ call.ret = FALSE

C11_Witness ==
  /\ call.op = "doDensitySink"
  /\ call.draw = 24 /\ call.chance = 25
  /\ call.y = 0 /\ height = 2
  /\ call.pre[call.i] = SAND
  /\ call.heavierThan = WATER
  /\ call.pre[call.i + width] = WATER
  /\ gameImagedata32[call.i + width] = SAND
  /\ gameImagedata32[call.i] = WATER
  /\ call.ret = TRUE

\* the orthogonal neighbours of cell i = x + y * width that are on the canvas
Orthogonal(x, y, i) ==
  (IF y # MAX_Y_IDX THEN {i + width} ELSE {})
  \cup (IF y # 0 THEN {i - width} ELSE {})
  \cup (IF x # 0 THEN {i - 1} ELSE {})
  \cup (IF x # MAX_X_IDX THEN {i + 1} ELSE {})

\* C12: in FIRE_ACTION, when the extinguish draw is below 80 and an
\* orthogonal neighbour holds WATER or SALT_WATER: with no orthogonal
\* neighbour holding BURNING_THERMITE, one such water cell becomes STEAM, the
\* fire cell becomes BACKGROUND, nothing else changes and the rule returns;
\* with such a neighbour the branch changes nothing and the rule goes on.
C12_FireWater ==
  call.op = "FIRE_ACTION.water" =>
    LET i == call.i
        near == Orthogonal(call.x, call.y, i)
        waters == {c \in near : call.pre[c] \in {WATER, SALT_WATER}}
        thermite == {c \in near : call.pre[c] = BURNING_THERMITE}
    IN (call.draw < 80 /\ waters # {})
         => IF thermite = {}
              THEN /\ \E w \in waters :
                        gameImagedata32 =
                          [call.pre EXCEPT ![w] = STEAM, ![i] = BACKGROUND]
                   /\ call.ret = TRUE
              ELSE /\ gameImagedata32 = call.pre
                   /\ call.ret = FALSE

C12_Witness ==
  /\ call.op = "FIRE_ACTION.water"
  /\ call.draw = 79
  /\ width = 3 /\ height = 1 /\ call.i = 1
  /\ call.pre[0] = WATER /\ call.pre[1] = FIRE
  /\ call.pre[2] = BURNING_THERMITE
  /\ gameImagedata32 = call.pre
  /\ call.ret = FALSE

\* the case of C12 without thermite: the fire went out
C12_WitnessSteam ==
  /\ call.op = "FIRE_ACTION.water"
  /\ call.draw = 79
  /\ call.pre[call.i] = FIRE
  /\ gameImagedata32[call.i] = BACKGROUND
  /\ \E w \in Orthogonal(call.x, call.y, call.i) :
       call.pre[w] = SALT_WATER /\ gameImagedata32[w] = STEAM

(***************************************************************************)
(* SpecTable: the page loads with some table of elements and some number   *)
(* of rules: the table of elements.js, cut or extended to a length of      *)
(* TableLengths, with at most one defect.  window.onload runs init, which  *)
(* runs initElements, and then starts mainLoop (game.js:291-294).          *)
(***************************************************************************)
TableLengths == {0, 1, 2, 3, NUM_ELEMENTS, 63, 64, 65, 66}

\* the table of elements.js, continued with further colours, n entries long
TableOfLength(n) ==
  [k \in 1..n |-> IF k <= NUM_ELEMENTS THEN elements[k]
                  ELSE InGameColor(k - 1, 8 * (k % 16), 16, 24)]

\* tbl with the entry at position k replaced by color
WithEntry(tbl, k, color) == [tbl EXCEPT ![k] = color]

\* tbl and the tables with one defect at one of the positions 1, 2, Len(tbl)
Defects(tbl) ==
  {tbl}
  \cup {WithEntry(tbl, k, <<a, tbl[k][2]>>)
          : k \in DOMAIN tbl \cap {1, 2, Len(tbl)}, a \in {0, 254}}
  \cup {WithEntry(tbl, k, tbl[j])
          : k \in DOMAIN tbl \cap {2, Len(tbl)}, j \in DOMAIN tbl \cap {1, 2}}
  \cup {WithEntry(tbl, k, <<255, tbl[k][2] + d>>)
          : k \in DOMAIN tbl \cap {1, Len(tbl)}, d \in {1, 256, 4}}
  \cup {WithEntry(tbl, k, <<0, tbl[j][2]>>)
          : k \in DOMAIN tbl \cap {2}, j \in DOMAIN tbl \cap {1}}

InitTable ==
  /\ width = 1
  /\ height = 1
  /\ gameImagedata32 = [c \in {0} |-> <<0, 0>>]
  /\ saveGameImagedata32 = [c \in {0} |-> <<0, 0>>]
  /\ gamestateSaved = FALSE
  /\ particles = initParticles
  /\ spigots = <<>>
  /\ threw = ""
  /\ nextElemIdx = 0
  /\ \E n \in TableLengths, d \in {-1, 0, 1} :
       \E tbl \in Defects(TableOfLength(n)) :
         /\ n + d >= 0
         /\ call = [op |-> "load", elements |-> tbl, numActions |-> n + d]
  /\ tickLog = NoLog
  /\ fpsSetting = undefined
  /\ lastLoop = 0
  /\ frameDebt = 0
  /\ gridAtSave = [c \in {0} |-> <<0, 0>>]
  /\ budget = [strokes |-> 0, ticks |-> 0, ops |-> 0, menu |-> {}]

\* game.js:291-294, 65-77: window.onload; mainLoop starts only if init
\* returned
OnLoad ==
  /\ call.op = "load"
  /\ LET e == initElements(call.elements, call.numActions)
     IN /\ threw' = e
        /\ call' = [op |-> "initElements", elements |-> call.elements,
                    numActions |-> call.numActions, threw |-> e,
                    mainLoop |-> (e = "")]
  /\ UNCHANGED <<dimVars, loopVars, gameImagedata32, saveVars, particles, nextElemIdx,
                 tickLog, budget>>

NextTable == OnLoad

SpecTable == InitTable /\ [][NextTable]_vars

\* a table that initElements must refuse
Defective(elems, numActions) ==
  \/ Len(elems) > 64
  \/ numActions # Len(elems)
  \/ \E k \in DOMAIN elems : ElemIdx(elems[k]) # k - 1
  \/ \E j, k \in DOMAIN elems : j # k /\ elems[j] = elems[k]
  \/ \E k \in DOMAIN elems : Alpha(elems[k]) # 255

\* C13: initElements throws, and so mainLoop never starts and no tick runs,
\* whenever the table has more than 64 elements, a number of actions
\* different from the number of elements, an element whose decoded index
\* differs from its position, two elements of the same colour or an element
\* whose alpha byte is not 0xff; it completes without throwing otherwise.
C13_InitElements ==
  call.op = "initElements" =>
    /\ call.threw # "" <=> Defective(call.elements, call.numActions)
    /\ call.mainLoop <=> call.threw = ""
    /\ threw = call.threw

C13_Witness ==
  /\ call.op = "initElements"
  /\ Len(call.elements) = NUM_ELEMENTS
  /\ call.numActions = NUM_ELEMENTS
  /\ \A k \in DOMAIN call.elements : ElemIdx(call.elements[k]) = k - 1
  /\ \E k \in DOMAIN call.elements : Alpha(call.elements[k]) = 254
  /\ call.threw = "alpha must be set to 0xff"
  /\ ~call.mainLoop

\* the table of elements.js itself passes
C13_WitnessPasses ==
  /\ call.op = "initElements"
  /\ call.elements = elements
  /\ call.numActions = NUM_ELEMENTS
  /\ call.threw = ""
  /\ call.mainLoop

\* C14: __pickRandValid(a, b): if both candidates are valid (not -1) the
\* result is a or b and both outcomes are possible; if exactly one is valid
\* the result is that one; if neither is valid the result is -1.  The result
\* is never an index other than a or b, and the grid is not touched.
C14_PickRandValid ==
  call.op = "__pickRandValid" =>
    /\ call.ret \in call.rets
    /\ call.rets = IF call.a # -1 /\ call.b # -1 THEN {call.a, call.b}
                   ELSE IF call.a # -1 THEN {call.a}
                   ELSE IF call.b # -1 THEN {call.b}
                   ELSE {-1}
    /\ gameImagedata32 = call.pre

C14_Witness ==
  /\ call.op = "__pickRandValid"
  /\ call.a = 0 /\ call.b = 2
  /\ call.ret = 2
  /\ call.rets = {0, 2}

\* C15: bordering(x, y, i, type) returns -1 if and only if none of the
\* orthogonal neighbours of (x,y) on the canvas holds type; otherwise it
\* returns the cell below if that holds type, else a matching cell to the
\* left or right, else the cell above.  What it returns is -1 or an
\* orthogonal neighbour on the canvas, and the grid is not touched.
C15_Bordering ==
  call.op = "bordering" =>
    LET i == call.i
        near == Orthogonal(call.x, call.y, i)
        holds(c) == c \in near /\ call.pre[c] = call.type
        sides == {c \in {i - 1, i + 1} : holds(c)}
    IN /\ call.ret = -1 <=> (\A c \in near : call.pre[c] # call.type)
       /\ call.ret \in near \cup {-1}
       /\ call.ret # -1 =>
            IF holds(i + width) THEN call.ret = i + width
            ELSE IF sides # {} THEN call.ret \in sides
            ELSE call.ret = i - width
       /\ gameImagedata32 = call.pre

\* the cell above is found when nothing below or beside matches
C15_Witness ==
  /\ call.op = "bordering"
  /\ width = 2 /\ height = 2
  /\ call.i = 3
  /\ call.pre[1] = call.type
  /\ call.pre[2] # call.type
  /\ call.ret = 1

\* the cell doGravity moved the element of cell i to: the one cell that
\* changed besides i, or -1 when the grid is as before
MovedTo(pre, post, i) ==
  IF \E c \in DOMAIN pre : c # i /\ post[c] # pre[c]
    THEN CHOOSE c \in DOMAIN pre : c # i /\ post[c] # pre[c]
    ELSE -1

\* doGravity moved the element of cell i to cell c, and nothing else changed
MovedExactly(pre, post, i, c) ==
  post = [pre EXCEPT ![c] = pre[i], ![i] = BACKGROUND]

\* the empty cells among S
Empty(pre, S) == {c \in S : pre[c] = BACKGROUND}

\* C20, as claimed: when doGravity moves an element that is not in the
\* bottom row, the destination is the cell directly below if that is empty,
\* otherwise (only when fallAdjacent) an empty one of the two cells
\* diagonally below; it never moves the element to any other cell, and never
\* moves it when fallAdjacent is false and the cell below is occupied.
C20_DownOrDiagonalOnly ==
  (call.op = "doGravity" /\ call.y # MAX_Y_IDX) =>
    LET i == call.i
        to == MovedTo(call.pre, gameImagedata32, i)
        diagonal == CellsBelow(call.x, call.y, i, TRUE) \ {i + width}
    IN /\ to # -1 =>
            /\ MovedExactly(call.pre, gameImagedata32, i, to)
            /\ IF call.pre[i + width] = BACKGROUND THEN to = i + width
               ELSE call.fallAdjacent /\ to \in Empty(call.pre, diagonal)
       /\ (~call.fallAdjacent /\ call.pre[i + width] # BACKGROUND)
            => gameImagedata32 = call.pre

\* C20, as the code has it: with fallAdjacent, when none of the three cells
\* below is empty, the element moves to an empty cell to its left or right
\* (elements.js:1408); the rest is as claimed.
C20_DownDiagonalOrSideways ==
  (call.op = "doGravity" /\ call.y # MAX_Y_IDX) =>
    LET i == call.i
        to == MovedTo(call.pre, gameImagedata32, i)
        diagonal == CellsBelow(call.x, call.y, i, TRUE) \ {i + width}
        sides == Orthogonal(call.x, call.y, i) \cap {i - 1, i + 1}
    IN /\ to # -1 =>
            /\ MovedExactly(call.pre, gameImagedata32, i, to)
            /\ IF call.pre[i + width] = BACKGROUND THEN to = i + width
               ELSE IF Empty(call.pre, diagonal) # {}
                 THEN call.fallAdjacent /\ to \in Empty(call.pre, diagonal)
               ELSE call.fallAdjacent /\ to \in Empty(call.pre, sides)
       /\ (~call.fallAdjacent /\ call.pre[i + width] # BACKGROUND)
            => gameImagedata32 = call.pre

\* sand on a wall, with sand to its left, slides to the empty cell on its
\* right
C20_Witness ==
  /\ call.op = "doGravity"
  /\ width = 2 /\ height = 2
  /\ call.i = 0 /\ call.fallAdjacent
  /\ call.pre[0] = SAND /\ call.pre[1] = BACKGROUND
  /\ call.pre[2] = WALL /\ call.pre[3] = WALL
  /\ gameImagedata32[0] = BACKGROUND /\ gameImagedata32[1] = SAND
  /\ call.ret = TRUE

\* the particles of pool ps that are active
ActiveParticles(ps) == {id \in DOMAIN ps.p : ps.p[id].active}

\* C19: saveGameCanvas changes neither the grid nor the particle pool, and
\* after loadGameCanvas with a saved state no particle is active: the active
\* list is empty, activeSize is 0 and every per-type count is 0, whatever
\* was active when the state was saved or when it was loaded.
C19_SaveLoadParticles ==
  /\ call.op = "saveGameCanvas"
       => /\ particles = call.prePs
          /\ gameImagedata32 = gridAtSave
  /\ (call.op = "loadGameCanvas" /\ call.saved)
       => /\ ActiveList(particles) = <<>>
          /\ particles.activeHead = NULL
          /\ particles.activeSize = 0
          /\ ActiveParticles(particles) = {}
          /\ \A type \in DOMAIN particles.particleCounts :
               particles.particleCounts[type] = 0

\* a load of a saved state while a particle is active
C19_Witness ==
  /\ call.op = "loadGameCanvas"
  /\ call.saved
  /\ ActiveParticles(call.prePs) # {}
  /\ ActiveParticles(particles) = {}

\* a save while a particle is active
C19_WitnessSave ==
  /\ call.op = "saveGameCanvas"
  /\ ActiveParticles(call.prePs) # {}
  /\ particles = call.prePs

(***************************************************************************)
(* SpecTick: one animation frame's updateGame on a canvas the user has     *)
(* painted, with the spigots of the menu and a pool that earlier rules     *)
(* have drawn from; tickLog keeps the events of the frame in order.  The   *)
(* scenarios with active particles run on the smaller canvases.            *)
(***************************************************************************)
TickScenarios ==
  {[palette |-> {BACKGROUND, SAND, WALL}, types |-> {}, cells |-> MaxCells],
   [palette |-> {BACKGROUND, WATER, SAND}, types |-> {}, cells |-> MaxCells],
   [palette |-> {BACKGROUND, OIL, LAVA}, types |-> {}, cells |-> MaxCells],
   [palette |-> {BACKGROUND, FIRE, NAPALM}, types |-> {NITRO_PARTICLE},
    cells |-> MaxGameCells],
   [palette |-> {BACKGROUND, WALL}, types |-> {TREE_PARTICLE},
    cells |-> MaxGameCells]}

InitTick ==
  \E sc \in TickScenarios : \E d \in Shapes(sc.cells) :
    /\ width = d[1]
    /\ height = d[2]
    /\ gameImagedata32 \in [0..(d[1] * d[2] - 1) -> sc.palette]
    /\ saveGameImagedata32 = [c \in 0..(d[1] * d[2] - 1) |-> BACKGROUND]
    /\ gamestateSaved = FALSE
    /\ \E k \in 0..MAX_NUM_PARTICLES : particles \in PoolsAfter(k, sc.types)
    /\ spigots = [k \in 1..NUM_SPIGOTS |->
                    [elem |-> SPIGOT_ELEMENTS[k], size |-> MAX_SPIGOT_WIDTH]]
    /\ threw = ""
    /\ nextElemIdx = NUM_ELEMENTS
    /\ call = NoCall
    /\ tickLog = NoLog
    /\ fpsSetting = DEFAULT_FPS
    /\ lastLoop = 0
    /\ frameDebt = 0
    /\ gridAtSave = [c \in 0..(d[1] * d[2] - 1) |-> BACKGROUND]
    /\ budget = [strokes |-> 0, ticks |-> 1, ops |-> 0, menu |-> {}]

\* game.js:100-154: the frame's updateGame, its events kept in tickLog
TracedTick ==
  /\ threw = ""
  /\ budget.ticks > 0
  /\ \E t \in updateGame(Mach, spigots) :
       /\ Commit(t)
       /\ tickLog' = t.log
  /\ call' = [op |-> "updateGame", pre |-> gameImagedata32,
              prePs |-> particles]
  /\ budget' = [budget EXCEPT !.ticks = @ - 1]
  /\ UNCHANGED <<dimVars, loopVars, saveVars, nextElemIdx>>

NextTick == TracedTick

SpecTick == InitTick /\ [][NextTick]_vars

\* the events of kind k in log, in order
RECURSIVE EventsOf(_, _)
EventsOf(log, k) ==
  IF log = <<>> THEN <<>>
  ELSE IF Head(log)[1] = k THEN <<Head(log)>> \o EventsOf(Tail(log), k)
  ELSE EventsOf(Tail(log), k)

\* the cells <<i, x, y>> the last frame visited, in order
Visits ==
  LET es == EventsOf(tickLog, "visit")
  IN [n \in 1..Len(es) |-> <<es[n][2], es[n][3], es[n][4]>>]

\* the n-th cell (from 0) of a scan that starts with the bottom row from
\* right to left and turns round at the end of every row
ZigZag(n) ==
  LET r == n \div width
      c == n % width
      y == MAX_Y_IDX - r
      x == IF r % 2 = 0 THEN MAX_X_IDX - c ELSE c
  IN <<x + y * width, x, y>>

\* C16: whatever the height, updateGame scans the rows from the bottom row
\* to the top row, the bottom row from x = width - 1 down to 0 and every
\* other row in the opposite direction to the row below it.
C16_ZigZagScan ==
  call.op = "updateGame"
    => Visits = [n \in 1..(width * height) |-> ZigZag(n - 1)]

\* a frame on a canvas of even height and one of odd height, more than one
\* cell wide
C16_Witness ==
  /\ call.op = "updateGame"
  /\ threw = ""
  /\ width = 2 /\ height = 2
  /\ Visits = <<(<<3, 1, 1>>), (<<2, 0, 1>>), (<<0, 0, 0>>), (<<1, 1, 0>>)>>

C16_WitnessOddHeight ==
  /\ call.op = "updateGame"
  /\ threw = ""
  /\ width = 1 /\ height = 3
  /\ Len(EventsOf(tickLog, "visit")) = 3

(***************************************************************************)
(* SpecLoop: the animation frames after window.onload (init, then          *)
(* mainLoop(0)) on a small canvas: mainLoop at the times the browser       *)
(* passes, with the cursor up or down, and the speed slider of the menu.   *)
(***************************************************************************)
MaxFrames == 3
MaxSpeedChanges == 1

\* the timestamps requestAnimationFrame passes to mainLoop, in ms
Times == {0, 10, 27, 60, 1060}

\* the values of the speed slider chosen (menu.js:226-235)
Speeds == {0, DEFAULT_FPS, MAX_FPS}

\* the elements the user paints with
LoopMenu == {SAND, WATER}

\* the cursor when a frame starts
Cursors ==
  {[isDown |-> FALSE, color |-> SAND, OVERWRITE_ENABLED |-> FALSE, mask |-> {}]}
  \cup [isDown : {TRUE}, color : LoopMenu, OVERWRITE_ENABLED : {TRUE},
        mask : {{i} : i \in Cells}]

InitLoop ==
  \E d \in Shapes(MaxGameCells) :
    /\ width = d[1]
    /\ height = d[2]
    /\ gameImagedata32 = [c \in 0..(d[1] * d[2] - 1) |-> BACKGROUND]
    /\ saveGameImagedata32 = [c \in 0..(d[1] * d[2] - 1) |-> BACKGROUND]
    /\ gamestateSaved = FALSE
    /\ particles = initParticles
    /\ spigots = [k \in 1..NUM_SPIGOTS |->
                    [elem |-> SPIGOT_ELEMENTS[k], size |-> MAX_SPIGOT_WIDTH]]
    /\ threw = ""
    /\ nextElemIdx = NUM_ELEMENTS
    /\ call = NoCall
    /\ tickLog = NoLog
    /\ fpsSetting = DEFAULT_FPS
    /\ lastLoop = 0
    /\ frameDebt = 0
    /\ gridAtSave = [c \in 0..(d[1] * d[2] - 1) |-> BACKGROUND]
    /\ budget = [strokes |-> 0, ticks |-> 0, ops |-> 0, menu |-> LoopMenu,
                 frames |-> MaxFrames, speeds |-> MaxSpeedChanges]

\* the events of a frame that mainLoop itself causes
FrameEvents(log) ==
  SelectSeq(log, LAMBDA e : e[1] \in {"updateUserStroke", "updateGame",
                                      "frameDebt--", "draw"})

\* game.js:227-289: mainLoop(now) with the cursor as it is at that time
MainLoop ==
  /\ threw = ""
  /\ budget.frames > 0
  /\ \E now \in Times, cursor \in Cursors :
       /\ lastLoop' = now
       /\ IF lastLoop = 0 \/ now - lastLoop < 0
            THEN /\ UNCHANGED <<gameImagedata32, particles, threw, frameDebt>>
                 /\ tickLog' = NoLog
                 /\ call' = [op |-> "mainLoop", returned |-> TRUE, now |-> now,
                             deltaMs |-> IF lastLoop = 0 THEN 0
                                         ELSE now - lastLoop,
                             debt |-> frameDebt, fps |-> fpsSetting]
            ELSE \E f \in frame(Mach, spigots, fpsSetting, frameDebt,
                                 now - lastLoop, cursor) :
                   /\ Commit(f.st)
                   /\ frameDebt' = f.frameDebt
                   /\ tickLog' = FrameEvents(f.st.log)
                   /\ call' = [op |-> "mainLoop", returned |-> FALSE,
                               now |-> now, deltaMs |-> now - lastLoop,
                               debt |-> frameDebt, fps |-> fpsSetting]
  /\ budget' = [budget EXCEPT !.frames = @ - 1]
  /\ UNCHANGED <<dimVars, saveVars, nextElemIdx, fpsSetting>>

\* game.js:94-98, menu.js:231-235: the speed slider
SetFPS ==
  /\ threw = ""
  /\ budget.speeds > 0
  /\ \E fps \in Speeds : fpsSetting' = fps
  /\ call' = [op |-> "setFPS"]
  /\ tickLog' = NoLog
  /\ budget' = [budget EXCEPT !.speeds = @ - 1]
  /\ UNCHANGED <<dimVars, saveVars, nextElemIdx, gameImagedata32, particles,
                 threw, lastLoop, frameDebt>>

NextLoop == MainLoop \/ SetFPS

SpecLoop == InitLoop /\ [][NextLoop]_vars

\* the debts logged by the events of kind k of the last frame
DebtsOf(k) == LET es == EventsOf(tickLog, k) IN [n \in 1..Len(es) |-> es[n][2]]

\* C17: in every mainLoop the frame debt is at most 5 when the updates
\* start, every updateGame starts with a debt of at least 1 and lowers it by
\* exactly 1, at most 5 updateGame run, and the debt left is between 0 and
\* 5, however long the frame took.
C17_FrameDebtBounded ==
  /\ frameDebt >= 0
  /\ frameDebt <= 5 * FrameUnit
  /\ call.op = "mainLoop"
       => LET before == DebtsOf("updateGame")
              after == DebtsOf("frameDebt--")
          IN /\ Len(before) <= 5
             /\ Len(after) = Len(before)
             /\ \A n \in 1..Len(before) :
                  /\ before[n] >= FrameUnit
                  /\ before[n] <= 5 * FrameUnit
                  /\ after[n] = before[n] - FrameUnit
                  /\ n > 1 => before[n] = after[n - 1]
             /\ Len(before) > 0 => frameDebt = after[Len(after)]

\* a frame a second after the last one runs five updates
C17_Witness ==
  /\ call.op = "mainLoop"
  /\ call.deltaMs >= 1000
  /\ call.debt + call.deltaMs * call.fps > 5 * FrameUnit
  /\ Len(EventsOf(tickLog, "updateGame")) = 5
  /\ frameDebt = 0

\* C18: a mainLoop that gets past its early returns runs updateUserStroke
\* exactly once and before every updateGame, runs draw exactly once and
\* after every updateGame, and no stroke is drawn between the start and the
\* end of an updateGame: the events of the frame are the stroke, then the
\* updates, each one ended before the next starts, then the draw.
C18_StrokeUpdatesDraw ==
  (call.op = "mainLoop" /\ ~call.returned)
    => LET n == Len(tickLog)
       IN /\ n >= 2
          /\ n % 2 = 0
          /\ tickLog[1][1] = "updateUserStroke"
          /\ tickLog[n][1] = "draw"
          /\ \A k \in 2..(n - 1) :
               tickLog[k][1] = IF k % 2 = 0 THEN "updateGame"
                               ELSE "frameDebt--"

\* a frame with a stroke and more than one update
C18_Witness ==
  /\ call.op = "mainLoop"
  /\ ~call.returned
  /\ Len(EventsOf(tickLog, "updateGame")) >= 2
  /\ \E i \in Cells : gameImagedata32[i] # BACKGROUND

\* C5: from the empty canvas of init, whatever frames, strokes with an
\* element of the menu, clears, saves and loads follow, every cell of the
\* grid holds the colour of a registered element and no handler has thrown
\* (BACKGROUND_ACTION, which throws, is never invoked).
C5_GridHoldsRegisteredColors ==
  /\ threw = ""
  /\ \A i \in Cells : gameImagedata32[i] \in RegisteredColors

\* a frame has left an element the user did not paint, with a particle
\* active
C5_Witness ==
  /\ call.op = "updateGame"
  /\ particles.activeSize > 0
  /\ \E i \in Cells : gameImagedata32[i] \notin budget.menu \cup {BACKGROUND}

\* C7: after loadGameCanvas with a saved state the grid equals, cell for
\* cell, the grid as it was when saveGameCanvas last ran, whatever frames,
\* strokes or clears came in between (and so a save followed at once by a
\* load leaves the grid as it is).
C7_LoadRestoresSavedGrid ==
  (call.op = "loadGameCanvas" /\ call.saved)
    => /\ gameImagedata32 = gridAtSave
       /\ DOMAIN gameImagedata32 = Cells

\* a load that brings back a saved grid which frames or strokes had changed
C7_Witness ==
  /\ call.op = "loadGameCanvas"
  /\ call.saved
  /\ call.pre # gridAtSave
  /\ gameImagedata32 = gridAtSave
  /\ \E i \in Cells : gridAtSave[i] # BACKGROUND

\* the number of events of log that satisfy P
CountOf(log, P(_)) == Cardinality({n \in 1..Len(log) : P(log[n])})

\* C4: in one updateGame every cell is visited exactly once; a cell that
\* holds an element when it is visited is dispatched to the rule of that
\* element exactly once in the frame, and a cell that holds BACKGROUND when
\* it is visited is not dispatched.
C4_EachCellOnce ==
  call.op = "updateGame"
    => LET vs == EventsOf(tickLog, "visit")
           ds == EventsOf(tickLog, "dispatch")
       IN /\ Len(vs) = width * height
          /\ \A i \in Cells : CountOf(vs, LAMBDA e : e[2] = i) = 1
          /\ \A n \in 1..Len(vs) :
               CountOf(ds, LAMBDA e : e[2] = vs[n][2])
                 = IF vs[n][5] = ElemIdx(BACKGROUND) THEN 0 ELSE 1
          /\ \A m \in 1..Len(ds) :
               /\ ds[m][5] # ElemIdx(BACKGROUND)
               /\ \E n \in 1..Len(vs) : <<vs[n][2], vs[n][5]>>
                                          = <<ds[m][2], ds[m][5]>>

\* a frame that dispatches one cell and skips another
C4_Witness ==
  /\ call.op = "updateGame"
  /\ width = 2 /\ height = 2
  /\ Len(EventsOf(tickLog, "dispatch")) \in 1..3
  /\ gameImagedata32 # call.pre

\* C8: in one updateGame every particle on the active list when
\* updateParticles starts has the action of its type invoked exactly once,
\* with actionIterations one more than before, in the order of the list;
\* no other particle is actioned (none allocated during the frame), and all
\* the actions come before the scan of the grid.
C8_EachParticleOnce ==
  call.op = "updateGame"
    => LET as == EventsOf(tickLog, "action")
           before == ActiveList(call.prePs)
       IN /\ [n \in 1..Len(as) |-> as[n][2]] = before
          /\ \A n \in 1..Len(as) :
               /\ as[n][3] = call.prePs.p[as[n][2]].type
               /\ as[n][4] = call.prePs.p[as[n][2]].actionIterations + 1
          /\ \A n, m \in 1..Len(tickLog) :
               (tickLog[n][1] = "action"
                  /\ tickLog[m][1] \in {"scan", "visit", "dispatch"})
                 => n < m

\* a frame with two active particles, one of which allocates a particle or
\* frees itself
C8_Witness ==
  /\ call.op = "updateGame"
  /\ call.prePs.activeSize = 2
  /\ Len(EventsOf(tickLog, "action")) = 2
  /\ ActiveList(particles) # ActiveList(call.prePs)

(***************************************************************************)
(* SpecEffect: one of the primitives that write around a cell, called once *)
(* as its rule calls it, on a canvas the user has painted.                 *)
(***************************************************************************)
MaxEffectCells == 9

\* the elements painted in a scenario
EffectPalettes ==
  {{GUNPOWDER, FIRE}, {BACKGROUND, SPOUT}, {BACKGROUND, WELL},
   {BACKGROUND, TORCH}, {BACKGROUND, LEAF}, {SALT, WATER}, {SOIL, NITRO},
   {STEAM, SAND}, {METHANE, WATER}}

InitEffect ==
  \E d \in Shapes(MaxEffectCells), palette \in EffectPalettes :
    Scenario(d, palette, {}, 1)

\* elements.js:463: GUNPOWDER_ACTION calls __doGunpowderExplosion(x, y, i)
\* on a cell of GUNPOWDER that borders FIRE
RuleExplosion ==
  /\ budget.ops > 0
  /\ \E i \in Cells :
       /\ gameImagedata32[i] = GUNPOWDER
       /\ \E b \in bordering(Mach, i % width, i \div width, i, FIRE) :
            b.ret # -1
       /\ \E t \in doGunpowderExplosion(Mach, i % width, i \div width, i) :
            /\ RuleCommit(t)
            /\ call' = [op |-> "__doGunpowderExplosion", x |-> i % width,
                        y |-> i \div width, i |-> i,
                        pre |-> gameImagedata32]

\* elements.js:437, 441, 445, 1032: the calls of doProducer, by the element
\* whose rule makes them
Producers ==
  {[elem |-> SPOUT, produce |-> WATER, overwriteAdjacent |-> FALSE,
    chance |-> 5],
   [elem |-> WELL, produce |-> OIL, overwriteAdjacent |-> FALSE,
    chance |-> 10],
   [elem |-> TORCH, produce |-> FIRE, overwriteAdjacent |-> TRUE,
    chance |-> 25],
   [elem |-> LEAF, produce |-> POLLEN, overwriteAdjacent |-> FALSE,
    chance |-> 100]}

\* the draws around the chances of Producers
ProducerDraws == {0, 4, 5, 9, 10, 24, 25, 99}

\* a rule calls doProducer(x, y, i, produce, overwriteAdjacent, chance) on
\* its cell, and random() returns draw
RuleProducer ==
  /\ budget.ops > 0
  /\ \E i \in Cells, pr \in Producers, draw \in ProducerDraws :
       /\ gameImagedata32[i] = pr.elem
       /\ \E o \in doProducer([Mach EXCEPT !.rnd = <<draw>>],
                              i % width, i \div width, i, pr.produce,
                              pr.overwriteAdjacent, pr.chance) :
            /\ RuleCommit(o.st)
            /\ call' = [op |-> "doProducer", x |-> i % width,
                        y |-> i \div width, i |-> i,
                        produce |-> pr.produce,
                        overwriteAdjacent |-> pr.overwriteAdjacent,
                        chance |-> pr.chance, draw |-> draw,
                        pre |-> gameImagedata32]

\* elements.js:416, 964: the calls of doTransform, by the element whose rule
\* makes them
Transformers ==
  {[elem |-> SALT, transformBy |-> WATER, transformInto |-> SALT_WATER],
   [elem |-> SOIL, transformBy |-> NITRO, transformInto |-> CHARGED_NITRO]}

\* the chances those calls pass (25 and 50, 25 and 100), in every
\* combination, and the draws around them
TransformChances == {25, 50, 100}
TransformDraws == {0, 24, 25, 49, 50, 99}

\* a rule calls doTransform(x, y, i, transformBy, transformInto,
\* transformChance, consumeChance) on its cell, and random() returns draw
RuleTransform ==
  /\ budget.ops > 0
  /\ \E i \in Cells, tr \in Transformers, transformChance \in TransformChances,
        consumeChance \in TransformChances, draw \in TransformDraws :
       /\ gameImagedata32[i] = tr.elem
       /\ \E o \in doTransform([Mach EXCEPT !.rnd = <<draw>>],
                               i % width, i \div width, i, tr.transformBy,
                               tr.transformInto, transformChance,
                               consumeChance) :
            /\ RuleCommit(o.st)
            /\ call' = [op |-> "doTransform", x |-> i % width,
                        y |-> i \div width, i |-> i,
                        transformBy |-> tr.transformBy,
                        transformInto |-> tr.transformInto,
                        transformChance |-> transformChance,
                        consumeChance |-> consumeChance,
                        draw |-> draw, ret |-> o.ret,
                        pre |-> gameImagedata32]

\* elements.js:784, 951: STEAM_ACTION and METHANE_ACTION call
\* doDensityGas(x, y, i, 70) on their cell
RuleDensityGas ==
  /\ budget.ops > 0
  /\ \E i \in Cells :
       /\ gameImagedata32[i] \in {STEAM, METHANE}
       /\ \E o \in doDensityGas(Mach, i % width, i \div width, i, 70) :
            /\ RuleCommit(o.st)
            /\ call' = [op |-> "doDensityGas", x |-> i % width,
                        y |-> i \div width, i |-> i, chance |-> 70,
                        ret |-> o.ret, pre |-> gameImagedata32]

NextEffect ==
  \/ RuleExplosion
  \/ RuleProducer
  \/ RuleTransform
  \/ RuleDensityGas

SpecEffect == InitEffect /\ [][NextEffect]_vars

\* the cells a call changed, as offsets (dx, dy) from the cell (x, y) it was
\* made on
ChangedOffsets ==
  {<<(c % width) - call.x, (c \div width) - call.y>> :
     c \in {c \in Cells : gameImagedata32[c] # call.pre[c]}}

\* the offsets a primitive is meant to write at: its cell and the eight
\* around it, or the four orthogonal ones, and those at distance two
Square == (-1..1) \X (-1..1)
Cross == {<<0, -1>>, <<0, 1>>, <<-1, 0>>, <<1, 0>>}
CrossAtTwo == {<<0, -2>>, <<0, 2>>, <<-2, 0>>, <<2, 0>>}

\* C21: every cell written by a primitive called on (x, y) lies at an offset
\* of its intended neighbourhood from (x, y), in the row the offset names:
\* the square around the cell and the four cells at distance two for
\* __doGunpowderExplosion, the four orthogonal cells for doProducer, the
\* cell, its sides and the three above for doDensityGas.
C21_WritesInNeighbourhood ==
  /\ call.op = "__doGunpowderExplosion"
       => ChangedOffsets \subseteq Square \cup CrossAtTwo
  /\ call.op = "doProducer" => ChangedOffsets \subseteq Cross
  /\ call.op = "doDensityGas"
       => ChangedOffsets \subseteq {<<0, 0>>, <<-1, 0>>, <<1, 0>>,
                                      <<-1, -1>>, <<0, -1>>, <<1, -1>>}

\* an explosion in the last column of a canvas four cells wide sets fire to
\* the second cell of the next row
C21_Witness ==
  /\ call.op = "__doGunpowderExplosion"
  /\ width = 4 /\ height = 2
  /\ call.x = MAX_X_IDX /\ call.y = 0
  /\ call.pre[call.i + 2] = GUNPOWDER
  /\ gameImagedata32[call.i + 2] = FIRE

\* C23: doTransform with the single draw r: the call returns true exactly
\* when r < transformChance and an orthogonal neighbour holds transformBy,
\* and then the cell holds transformInto; the catalyst (one orthogonal
\* neighbour that held transformBy) is converted only in such a call, and
\* then exactly when r < consumeChance, so always when consumeChance >=
\* transformChance; no other cell changes.  When the call returns false the
\* grid is unchanged.
C23_DoTransform ==
  call.op = "doTransform" =>
    LET i == call.i
        r == call.draw
        catalysts == {c \in Orthogonal(call.x, call.y, i) :
                        call.pre[c] = call.transformBy}
        transformed == [call.pre EXCEPT ![i] = call.transformInto]
    IN /\ call.ret = (r < call.transformChance /\ catalysts # {})
       /\ ~call.ret => gameImagedata32 = call.pre
       /\ call.ret =>
            IF r < call.consumeChance
              THEN \E c \in catalysts :
                     gameImagedata32
                       = [transformed EXCEPT ![c] = call.transformInto]
              ELSE gameImagedata32 = transformed
       /\ (call.ret /\ call.consumeChance >= call.transformChance)
            => \E c \in catalysts :
                 gameImagedata32[c] = call.transformInto

\* SALT touching WATER with the chances of SALT_ACTION: both become
\* SALT_WATER
C23_Witness ==
  /\ call.op = "doTransform"
  /\ call.transformChance = 25 /\ call.consumeChance = 50
  /\ call.draw = 24 /\ call.ret
  /\ call.pre[call.i] = SALT
  /\ gameImagedata32[call.i] = SALT_WATER
  /\ \E c \in Orthogonal(call.x, call.y, call.i) :
       call.pre[c] = WATER /\ gameImagedata32[c] = SALT_WATER
  /\ Cardinality({c \in Cells : gameImagedata32[c] # call.pre[c]}) = 2

\* a transformation that leaves the catalyst: the draw is below
\* transformChance but not below consumeChance
C23_WitnessKeepsCatalyst ==
  /\ call.op = "doTransform"
  /\ call.transformChance = 50 /\ call.consumeChance = 25
  /\ call.draw = 25 /\ call.ret
  /\ gameImagedata32 = [call.pre EXCEPT ![call.i] = call.transformInto]

\* C24: doProducer with a draw below chance writes the produced element
\* into every orthogonal neighbour on the canvas that holds BACKGROUND, or
\* into every orthogonal neighbour on the canvas when overwriteAdjacent, and
\* changes no other cell: not its own, not a diagonal one and, without
\* overwriteAdjacent, no neighbour that holds an element.  With a draw of
\* chance or more the grid is unchanged.
C24_DoProducer ==
  call.op = "doProducer" =>
    LET near == Orthogonal(call.x, call.y, call.i)
        targets == IF call.overwriteAdjacent THEN near
                   ELSE Empty(call.pre, near)
    IN gameImagedata32
         = IF call.draw < call.chance
             THEN [c \in Cells |-> IF c \in targets THEN call.produce
                                   ELSE call.pre[c]]
             ELSE call.pre

\* a SPOUT in the middle of a 3 x 3 canvas waters its empty neighbours and
\* leaves a neighbouring SPOUT and an empty diagonal cell as they are
C24_Witness ==
  /\ call.op = "doProducer"
  /\ width = 3 /\ height = 3 /\ call.i = 4
  /\ call.produce = WATER /\ call.draw = 4
  /\ call.pre[1] = SPOUT /\ gameImagedata32[1] = SPOUT
  /\ call.pre[0] = BACKGROUND /\ gameImagedata32[0] = BACKGROUND
  /\ \A c \in {3, 5, 7} :
       call.pre[c] = BACKGROUND /\ gameImagedata32[c] = WATER
  /\ gameImagedata32[4] = SPOUT

\* a TORCH overwrites a neighbouring TORCH
C24_WitnessOverwrite ==
  /\ call.op = "doProducer"
  /\ call.overwriteAdjacent /\ call.draw = 24
  /\ \E c \in Orthogonal(call.x, call.y, call.i) :
       call.pre[c] = TORCH /\ gameImagedata32[c] = FIRE

(***************************************************************************)
(* SpecMove: one of the primitives that move the element of a cell, called *)
(* once as its rule calls it, on a canvas the user has painted.            *)
(***************************************************************************)
MaxMoveCells == 9

\* the elements painted in a scenario, on a canvas of at most cells cells
MoveScenarios ==
  {[cells |-> MaxMoveCells, palette |-> {STEAM, SAND}],
   [cells |-> MaxMoveCells, palette |-> {STEAM, BACKGROUND}],
   [cells |-> MaxCells, palette |-> {BACKGROUND, SAND, WALL}],
   [cells |-> MaxCells, palette |-> {BACKGROUND, WATER, OIL}],
   [cells |-> MaxCells, palette |-> {SALT_WATER, WATER, LAVA}],
   [cells |-> MaxCells, palette |-> {BACKGROUND, METHANE, WATER}]}

InitMove ==
  \E sc \in MoveScenarios :
    \E d \in Shapes(sc.cells) : Scenario(d, sc.palette, {}, 1)

\* elements.js:785, 949: the calls of doRise, by the element whose rule
\* makes them
Risers ==
  {[elem |-> STEAM, riseChance |-> 70, adjacentChance |-> 60],
   [elem |-> METHANE, riseChance |-> 25, adjacentChance |-> 65]}

\* a rule calls doRise(x, y, i, riseChance, adjacentChance) on its cell
RuleRise ==
  /\ budget.ops > 0
  /\ \E i \in Cells, rs \in Risers :
       /\ gameImagedata32[i] = rs.elem
       /\ \E o \in doRise(Mach, i % width, i \div width, i, rs.riseChance,
                          rs.adjacentChance) :
            /\ RuleCommit(o.st)
            /\ call' = [op |-> "doRise", x |-> i % width,
                        y |-> i \div width, i |-> i, ret |-> o.ret,
                        pre |-> gameImagedata32]

\* elements.js:285, 422: the calls of doDensityLiquid, by the element whose
\* rule makes them
Liquids ==
  {[elem |-> WATER, heavierThan |-> OIL, sinkChance |-> 25,
    equalizeChance |-> 50],
   [elem |-> SALT_WATER, heavierThan |-> WATER, sinkChance |-> 50,
    equalizeChance |-> 50]}

\* a rule calls doDensityLiquid(x, y, i, heavierThan, sinkChance,
\* equalizeChance) on its cell
RuleDensityLiquid ==
  /\ budget.ops > 0
  /\ \E i \in Cells, lq \in Liquids :
       /\ gameImagedata32[i] = lq.elem
       /\ \E o \in doDensityLiquid(Mach, i % width, i \div width, i,
                                   lq.heavierThan, lq.sinkChance,
                                   lq.equalizeChance) :
            /\ RuleCommit(o.st)
            /\ call' = [op |-> "doDensityLiquid", x |-> i % width,
                        y |-> i \div width, i |-> i,
                        heavierThan |-> lq.heavierThan, ret |-> o.ret,
                        pre |-> gameImagedata32]

NextMove ==
  \/ RuleGravity
  \/ RuleRise
  \/ RuleDensitySink
  \/ RuleDensityLiquid
  \/ RuleDensityGas

SpecMove == InitMove /\ [][NextMove]_vars

\* post is pre with the contents of cells i and c exchanged
Exchanged(pre, post, i, c) ==
  post = [pre EXCEPT ![i] = pre[c], ![c] = pre[i]]

\* the multiset of the values of a grid: how many cells hold each value
Census(g) ==
  [v \in {g[c] : c \in DOMAIN g} |-> Cardinality({c \in DOMAIN g : g[c] = v})]

\* C25: a call of doGravity, doRise, doDensitySink, doDensityLiquid or
\* doDensityGas on cell i either returns false and leaves the grid as it
\* was, or returns true having exchanged the contents of cell i and of one
\* other cell of the canvas, all other cells and so the multiset of cell
\* values as before; except that doGravity in the bottom row and doRise in
\* the top row may return true having replaced cell i by BACKGROUND.
C25_MoversExchange ==
  call.op \in {"doGravity", "doRise", "doDensitySink", "doDensityLiquid",
               "doDensityGas"} =>
    LET i == call.i
        leaves == \/ call.op = "doGravity" /\ call.y = MAX_Y_IDX
                  \/ call.op = "doRise" /\ call.y = 0
    IN IF call.ret
         THEN \/ /\ \E c \in Cells \ {i} :
                      Exchanged(call.pre, gameImagedata32, i, c)
                 /\ Census(gameImagedata32) = Census(call.pre)
              \/ /\ leaves
                 /\ gameImagedata32 = [call.pre EXCEPT ![i] = BACKGROUND]
         ELSE gameImagedata32 = call.pre

\* STEAM between two columns of SAND, under SAND: doDensityGas exchanges it
\* with a cell of SAND
C25_Witness ==
  /\ call.op = "doDensityGas"
  /\ call.ret
  /\ call.pre[call.i] = STEAM
  /\ \E c \in Cells \ {call.i} :
       /\ call.pre[c] = SAND
       /\ gameImagedata32[c] = STEAM
       /\ gameImagedata32[call.i] = SAND
       /\ Exchanged(call.pre, gameImagedata32, call.i, c)

\* the exception: STEAM leaves the canvas by the top row
C25_WitnessLeaves ==
  /\ call.op = "doRise"
  /\ call.y = 0 /\ call.ret
  /\ call.pre[call.i] = STEAM
  /\ gameImagedata32 = [call.pre EXCEPT ![call.i] = BACKGROUND]
  /\ Census(gameImagedata32) # Census(call.pre)

(***************************************************************************)
(* SpecDispatch: updateGame dispatches one cell to the rule of SAND,       *)
(* WATER, PLANT, LAVA or BURNING_THERMITE, on a canvas the user has        *)
(* painted.                                                                *)
(***************************************************************************)
MaxDispatchCells == 9

\* the elements painted in a scenario, on a canvas of at most cells cells
DispatchScenarios ==
  {[cells |-> MaxDispatchCells, palette |-> {LAVA, BACKGROUND}],
   [cells |-> MaxCells, palette |-> {BACKGROUND, SAND, WATER}],
   [cells |-> MaxCells, palette |-> {BACKGROUND, WATER, OIL}],
   [cells |-> MaxCells, palette |-> {PLANT, WATER, SALT}],
   [cells |-> MaxCells, palette |-> {BACKGROUND, LAVA, WALL}],
   [cells |-> MaxCells, palette |-> {BACKGROUND, LAVA, PLANT}],
   [cells |-> MaxCells, palette |-> {LAVA, WATER, OIL}],
   [cells |-> MaxCells, palette |-> {LAVA, FIRE, STEAM}],
   [cells |-> MaxCells, palette |-> {BACKGROUND, SAND, BURNING_THERMITE}]}

InitDispatch ==
  \E sc \in DispatchScenarios :
    \E d \in Shapes(sc.cells) : Scenario(d, sc.palette, {}, 1)

\* game.js:126-131: updateGame finds elem in cell i and runs its rule
Dispatch(name, elem, Action(_, _, _, _)) ==
  /\ budget.ops > 0
  /\ \E i \in Cells :
       /\ gameImagedata32[i] = elem
       /\ \E t \in Action(Mach, i % width, i \div width, i) :
            /\ RuleCommit(t)
            /\ call' = [op |-> name, x |-> i % width, y |-> i \div width,
                        i |-> i, pre |-> gameImagedata32,
                        prePs |-> particles]

RuleSand == Dispatch("SAND_ACTION", SAND, SAND_ACTION)
RuleWater == Dispatch("WATER_ACTION", WATER, WATER_ACTION)
RulePlant == Dispatch("PLANT_ACTION", PLANT, PLANT_ACTION)
RuleThermite ==
  Dispatch("BURNING_THERMITE_ACTION", BURNING_THERMITE,
           BURNING_THERMITE_ACTION)

\* the grids a rule can leave
GridsOf(S) == {t.grid : t \in S}

\* updateGame dispatches a cell of LAVA; grids are the grids LAVA_ACTION can
\* leave from this state, unguarded those it could leave if the block of
\* elements.js:683-757 always ran
RuleLava ==
  /\ budget.ops > 0
  /\ \E i \in Cells :
       /\ gameImagedata32[i] = LAVA
       /\ \E t \in LAVA_ACTION(Mach, i % width, i \div width, i) :
            /\ RuleCommit(t)
            /\ call' = [op |-> "LAVA_ACTION", x |-> i % width,
                        y |-> i \div width, i |-> i,
                        pre |-> gameImagedata32, prePs |-> particles,
                        grids |-> GridsOf(lavaRule(Mach, i % width,
                                                   i \div width, i, TRUE)),
                        unguarded |-> GridsOf(lavaRule(Mach, i % width,
                                                       i \div width, i,
                                                       FALSE))]

NextDispatch ==
  \/ RuleSand
  \/ RuleWater
  \/ RulePlant
  \/ RuleThermite
  \/ RuleLava

SpecDispatch == InitDispatch /\ [][NextDispatch]_vars

\* the cells the lava of cell i went to by gravity: cell i is empty, the
\* pool is as before (no particle took the lava) and a cell that was empty
\* or on fire holds lava
LavaWentTo ==
  IF gameImagedata32[call.i] = BACKGROUND /\ particles = call.prePs
    THEN {c \in Cells \ {call.i} :
            /\ gameImagedata32[c] = LAVA
            /\ call.pre[c] \in {BACKGROUND, FIRE}}
    ELSE {}

\* the cells on the canvas beside cell i = x + y * width
Sides(x, i) ==
  (IF x # 0 THEN {i - 1} ELSE {}) \cup (IF x # MAX_X_IDX THEN {i + 1} ELSE {})

\* C26, as claimed: the gravity step of LAVA_ACTION moves a LAVA cell that
\* is not in the bottom row only into the cell directly below it, and
\* leaves it in place when that cell is not empty.
C26_LavaFallsStraightOnly ==
  (call.op = "LAVA_ACTION" /\ call.y # MAX_Y_IDX)
    => LavaWentTo \subseteq {call.i + width}

\* C26, corrected: the gravity step of LAVA_ACTION has chance 100 and may
\* move diagonally: a LAVA cell that is not in the bottom row moves into the
\* cell directly below it if that is empty; otherwise into an empty one of
\* the two cells diagonally below; otherwise into an empty cell beside it;
\* and it is still in its cell after the rule only if none of these cells
\* is empty.
C26_LavaFlows ==
  (call.op = "LAVA_ACTION" /\ call.y # MAX_Y_IDX) =>
    LET i == call.i
        under == CellsBelow(call.x, call.y, i, TRUE)
        beside == Sides(call.x, i)
    IN /\ \A c \in LavaWentTo :
            LET seen == [gameImagedata32 EXCEPT ![i] = LAVA,
                                                ![c] = BACKGROUND]
            IN \/ c = i + width
               \/ /\ c \in under
                  /\ seen[i + width] # BACKGROUND
               \/ /\ c \in beside
                  /\ Empty(seen, under) = {}
       /\ gameImagedata32[i] = LAVA
            => Empty(gameImagedata32, under \cup beside) = {}

\* on a 2 x 2 canvas, lava above a wall flows to the empty cell diagonally
\* below
C26_Witness ==
  /\ call.op = "LAVA_ACTION"
  /\ width = 2 /\ height = 2 /\ call.i = 0
  /\ call.pre[2] = WALL /\ call.pre[3] = BACKGROUND
  /\ gameImagedata32[2] = WALL
  /\ LavaWentTo = {3}

\* the lava slides to the empty cell beside it
C26_WitnessSideways ==
  /\ call.op = "LAVA_ACTION"
  /\ width = 2 /\ height = 2 /\ call.i = 0
  /\ gameImagedata32[2] = WALL /\ gameImagedata32[3] = WALL
  /\ LavaWentTo = {1}

\* C27: the lava-locked shortcut of LAVA_ACTION preserves behaviour: from
\* every state the grids the rule can leave are the grids it could leave if
\* the guarded block always ran; where skipDirectAdjacent is true no check
\* of the block changes a cell.
C27_ShortcutPreservesGrids ==
  call.op = "LAVA_ACTION" => call.grids = call.unguarded

\* lava in the middle of a 3 x 3 canvas, under lava and between empty
\* cells: skipDirectAdjacent is true, and the lava may flow
C27_Witness ==
  /\ call.op = "LAVA_ACTION"
  /\ width = 3 /\ height = 3 /\ call.i = 4
  /\ skipDirectAdjacent([grid |-> call.pre], 1, 7, 3, 5)
  /\ call.pre[1] = LAVA /\ call.pre[3] = BACKGROUND
  /\ call.pre[5] = BACKGROUND
  /\ call.grids = call.unguarded
  /\ Cardinality(call.grids) > 1
  /\ gameImagedata32 # call.pre

\* the machine state the last dispatch started from
Before == [Mach EXCEPT !.grid = call.pre, !.ps = call.prePs]

\* the grids one step of a rule, alone, can leave from the state the last
\* dispatch started from: the steps of SAND_ACTION (elements.js:276-280),
\* of WATER_ACTION (elements.js:284-285) and of PLANT_ACTION
\* (elements.js:289-297)
OneStep ==
  LET x == call.x
      y == call.y
      i == call.i
  IN IF call.op = "SAND_ACTION"
       THEN GridsOf(States(doDensitySink(Before, x, y, i, WATER, TRUE, 25)))
            \cup GridsOf(States(doDensitySink(Before, x, y, i, SALT_WATER,
                                              TRUE, 25)))
            \cup GridsOf(States(doGravity(Before, x, y, i, TRUE, 95)))
     ELSE IF call.op = "WATER_ACTION"
       THEN GridsOf(States(doGravity(Before, x, y, i, TRUE, 95)))
            \cup GridsOf(States(doDensityLiquid(Before, x, y, i, OIL, 25, 50)))
     ELSE IF call.op = "PLANT_ACTION"
       THEN GridsOf(States(doGrow(Before, x, y, i, WATER, 50)))
            \cup {[call.pre EXCEPT ![i] = BACKGROUND]}
     ELSE {}

\* the cells around the lava that the last dispatch set on fire
Ignited ==
  {c \in Orthogonal(call.x, call.y, call.i) :
     call.pre[c] # FIRE /\ gameImagedata32[c] = FIRE}

\* C22, as claimed: in a dispatch, once one step of the rule has changed the
\* grid no later step changes it: the grid after SAND_ACTION, WATER_ACTION
\* or PLANT_ACTION is the grid before or a grid one step alone can leave,
\* and LAVA_ACTION does not both set a neighbour on fire and move its lava.
C22_OneStepPerDispatch ==
  /\ call.op \in {"SAND_ACTION", "WATER_ACTION", "PLANT_ACTION"}
       => gameImagedata32 \in {call.pre} \cup OneStep
  /\ call.op = "LAVA_ACTION" => ~(Ignited # {} /\ LavaWentTo # {})

\* C22, corrected: a dispatch ends at the first step that returns.  In
\* SAND_ACTION and WATER_ACTION every step is a primitive that returns when
\* it has changed the grid, so the grid after the rule is the grid before or
\* a grid one step alone can leave.  A step that does not return lets the
\* later ones act: the grid after PLANT_ACTION is the grid before, or after
\* its growth, or either of the two with the plant removed.
C22_StopsAtReturningStep ==
  /\ call.op \in {"SAND_ACTION", "WATER_ACTION"}
       => gameImagedata32 \in {call.pre} \cup OneStep
  /\ call.op = "PLANT_ACTION"
       => LET grown == {call.pre}
                       \cup GridsOf(States(doGrow(Before, call.x, call.y,
                                                  call.i, WATER, 50)))
          IN gameImagedata32
               \in grown \cup {[g EXCEPT ![call.i] = BACKGROUND] : g \in grown}

\* SAND sinks through the WATER under it and the dispatch ends: the empty
\* cell diagonally below stays empty
C22_Witness ==
  /\ call.op = "SAND_ACTION"
  /\ width = 2 /\ height = 2 /\ call.i = 0
  /\ call.pre[2] = WATER /\ call.pre[3] = BACKGROUND
  /\ gameImagedata32 = [call.pre EXCEPT ![0] = WATER, ![2] = SAND]

\* two steps of one dispatch change the grid: a PLANT grows into WATER and
\* is killed by SALT
C22_WitnessPlant ==
  /\ call.op = "PLANT_ACTION"
  /\ gameImagedata32[call.i] = BACKGROUND
  /\ \E c \in Cells : call.pre[c] = WATER /\ gameImagedata32[c] = PLANT

\* two steps of one dispatch change the grid: BURNING_THERMITE sets the SAND
\* above it on fire and falls
C22_WitnessThermite ==
  /\ call.op = "BURNING_THERMITE_ACTION"
  /\ call.y = 1 /\ height = 3
  /\ call.pre[call.i - width] = SAND
  /\ gameImagedata32[call.i - width] = FIRE
  /\ call.pre[call.i + width] = BACKGROUND
  /\ gameImagedata32[call.i + width] = BURNING_THERMITE
  /\ gameImagedata32[call.i] = BACKGROUND

\* two steps of one dispatch change the grid: LAVA sets the PLANT beside it
\* on fire and flows away
C22_WitnessLava ==
  /\ call.op = "LAVA_ACTION"
  /\ \E c \in Ignited : call.pre[c] = PLANT
  /\ LavaWentTo # {}

(***************************************************************************)
(* SpecLone: one animation frame's updateGame on a canvas that holds a     *)
(* single STEAM, METHANE or SAND, the rest empty or, around the SAND,      *)
(* WALL; the spigots are set to size 0 in the menu and no particle is      *)
(* active.                                                                 *)
(***************************************************************************)
MaxLoneCells == 8

\* the element alone on the canvas, and what may fill the other cells
LoneScenarios ==
  {[elem |-> STEAM, rest |-> {BACKGROUND}],
   [elem |-> METHANE, rest |-> {BACKGROUND}],
   [elem |-> SAND, rest |-> {BACKGROUND, WALL}]}

InitLone ==
  \E sc \in LoneScenarios, d \in Shapes(MaxLoneCells) :
    /\ width = d[1]
    /\ height = d[2]
    /\ \E c \in 0..(d[1] * d[2] - 1) :
         \E g \in [0..(d[1] * d[2] - 1) -> sc.rest] :
           gameImagedata32 = [g EXCEPT ![c] = sc.elem]
    /\ saveGameImagedata32 = [c \in 0..(d[1] * d[2] - 1) |-> BACKGROUND]
    /\ gamestateSaved = FALSE
    /\ particles = initParticles
    /\ spigots = [k \in 1..NUM_SPIGOTS |->
                    [elem |-> SPIGOT_ELEMENTS[k], size |-> 0]]
    /\ threw = ""
    /\ nextElemIdx = NUM_ELEMENTS
    /\ call = NoCall
    /\ tickLog = NoLog
    /\ fpsSetting = DEFAULT_FPS
    /\ lastLoop = 0
    /\ frameDebt = 0
    /\ gridAtSave = [c \in 0..(d[1] * d[2] - 1) |-> BACKGROUND]
    /\ budget = [strokes |-> 0, ticks |-> 1, ops |-> 0, menu |-> {}]

SpecLone == InitLone /\ [][NextTick]_vars

\* the cells of grid g that hold element e
Holding(g, e) == {c \in DOMAIN g : g[c] = e}

\* before the last frame the canvas held element e in one cell and only
\* elements of rest elsewhere
Alone(e, rest) ==
  /\ call.op = "updateGame"
  /\ Cardinality(Holding(call.pre, e)) = 1
  /\ \A c \in Cells : call.pre[c] \in rest \cup {e}

\* the row of the one cell of g that holds e
RowOf(g, e) == (CHOOSE c \in Holding(g, e) : TRUE) \div width

\* C28, as claimed: a STEAM or METHANE alone on an empty canvas rises at most
\* one row in one updateGame.
C28_RisesOneRowPerTick ==
  \A e \in {STEAM, METHANE} :
    (Alone(e, {BACKGROUND}) /\ Holding(gameImagedata32, e) # {})
      => RowOf(call.pre, e) - RowOf(gameImagedata32, e) <= 1

\* C28, corrected: a STEAM or METHANE alone on an empty canvas is dispatched
\* again in every row it rises to, the rows being scanned bottom to top: in
\* one updateGame it stays alone, never moves down and rises at most one row
\* per dispatch, so as many rows as there are above it.
C28_RisesOneRowPerDispatch ==
  \A e \in {STEAM, METHANE} :
    (Alone(e, {BACKGROUND}) /\ Holding(gameImagedata32, e) # {})
      => LET rose == RowOf(call.pre, e) - RowOf(gameImagedata32, e)
         IN /\ Cardinality(Holding(gameImagedata32, e)) = 1
            /\ rose >= 0
            /\ rose <= Len(EventsOf(tickLog, "dispatch"))

\* STEAM at the bottom of a canvas four rows high reaches the top row in
\* one frame, dispatched in each of the four rows
C28_Witness ==
  /\ Alone(STEAM, {BACKGROUND})
  /\ height = 4
  /\ RowOf(call.pre, STEAM) = MAX_Y_IDX
  /\ Holding(gameImagedata32, STEAM) # {}
  /\ RowOf(gameImagedata32, STEAM) = 0
  /\ Len(EventsOf(tickLog, "dispatch")) = 4


\* C29: a SAND alone on a canvas of BACKGROUND and WALL lands, when doGravity
\* moves it down, in a row already scanned: in one updateGame it falls at
\* most one row, also when a sideways move in the scan direction has it
\* dispatched again in its own row, and it leaves the canvas only from the
\* bottom row.
C29_FallsOneRowPerTick ==
  Alone(SAND, {BACKGROUND, WALL})
    => IF Holding(gameImagedata32, SAND) = {}
       THEN RowOf(call.pre, SAND) = MAX_Y_IDX
       ELSE /\ Cardinality(Holding(gameImagedata32, SAND)) = 1
            /\ RowOf(gameImagedata32, SAND) - RowOf(call.pre, SAND) \in {0, 1}

\* the SAND slid sideways, was dispatched a second time in the same row and
\* then fell one row
C29_Witness ==
  /\ Alone(SAND, {BACKGROUND, WALL})
  /\ Holding(gameImagedata32, SAND) # {}
  /\ RowOf(gameImagedata32, SAND) = RowOf(call.pre, SAND) + 1
  /\ LET d == EventsOf(tickLog, "dispatch")
     IN /\ Len(d) = 2
        /\ d[1][4] = d[2][4]
        /\ d[1][3] # d[2][3]


(***************************************************************************)
(* SpecReclaim: a game with particles in flight, driven by animation       *)
(* frames that owe one updateGame and by the clear, save and load buttons. *)
(* The particles are young ones of the types whose actions can free them   *)
(* at any age; the canvas holds what they can hit and elements whose rules *)
(* request particles (these on the canvases of two cells).  The spigots    *)
(* are set to size 0.                                                      *)
(***************************************************************************)
MaxReclaimCells == 2

ReclaimScenarios ==
  {[palette |-> {BACKGROUND, WALL}, types |-> {TREE_PARTICLE}, cells |-> 1],
   [palette |-> {WATER, WALL}, types |-> {LAVA_PARTICLE}, cells |-> 1],
   [palette |-> {FIRE, NAPALM}, types |-> {NITRO_PARTICLE},
    cells |-> MaxReclaimCells]}

InitReclaim ==
  \E sc \in ReclaimScenarios : \E d \in Shapes(sc.cells) :
    /\ width = d[1]
    /\ height = d[2]
    /\ gameImagedata32 \in [0..(d[1] * d[2] - 1) -> sc.palette]
    /\ saveGameImagedata32 = [c \in 0..(d[1] * d[2] - 1) |-> BACKGROUND]
    /\ gamestateSaved = FALSE
    /\ \E k \in 0..MAX_NUM_PARTICLES : particles \in PoolsAfter(k, sc.types)
    /\ spigots = [k \in 1..NUM_SPIGOTS |->
                    [elem |-> SPIGOT_ELEMENTS[k], size |-> 0]]
    /\ threw = ""
    /\ nextElemIdx = NUM_ELEMENTS
    /\ call = NoCall
    /\ tickLog = NoLog
    /\ fpsSetting = DEFAULT_FPS
    /\ lastLoop = 0
    /\ frameDebt = 0
    /\ gridAtSave = [c \in 0..(d[1] * d[2] - 1) |-> BACKGROUND]
    /\ budget = [strokes |-> 0, ticks |-> MaxTicks, ops |-> 0,
                 clears |-> MaxCanvasOps, saves |-> MaxCanvasOps,
                 loads |-> MaxCanvasOps, menu |-> {}]

NextReclaim == TracedTick \/ Clear \/ Save \/ Load

SpecReclaim == InitReclaim /\ [][NextReclaim]_vars

\* the active particles of type t
ActiveOfType(ps, t) == {id \in ActiveParticles(ps) : ps.p[id].type = t}

\* C30: makeParticleInactive takes one from activeSize whether or not the
\* particle is active, and one from the count of UNKNOWN_PARTICLE when it is
\* not; so it has only ever been applied to active particles exactly when
\* activeSize is the number of active particles, and then no count has
\* underflowed.  Through frames, clear, save and load: activeSize is the
\* number of active particles, every per-type count is the number of active
\* particles of the type, the two sizes add up to the pool, and no inactive
\* particle is on the active list.
C30_FreedOnlyWhenActive ==
  /\ particles.activeSize = Cardinality(ActiveParticles(particles))
  /\ particles.activeSize + particles.inactiveSize = MAX_NUM_PARTICLES
  /\ \A t \in ParticleTypes :
       /\ particles.particleCounts[t] >= 0
       /\ particles.particleCounts[t]
            = Cardinality(ActiveOfType(particles, t))
  /\ \A k \in 1..Len(ActiveList(particles)) :
       particles.p[ActiveList(particles)[k]].active

\* a frame in which the actions of two particles ran and freed both
C30_Witness ==
  /\ call.op = "updateGame"
  /\ Cardinality(ActiveParticles(call.prePs)) = 2
  /\ Len(EventsOf(tickLog, "action")) = 2
  /\ ActiveParticles(particles) = {}
  /\ particles.inactiveSize = MAX_NUM_PARTICLES
  /\ threw = ""

\* a frame in which a particle was freed by its action and allocated again
\* by the rule of a cell
C30_WitnessReused ==
  /\ call.op = "updateGame"
  /\ Cardinality(ActiveParticles(call.prePs)) = 2
  /\ Len(EventsOf(tickLog, "action")) = 2
  /\ Len(EventsOf(tickLog, "alloc")) > 0
  /\ \E id \in ActiveParticles(particles) :
       /\ particles.p[id].type = NAPALM_PARTICLE
       /\ call.prePs.p[id].type # NAPALM_PARTICLE

\* the load button pressed after a frame, with a saved state: inactivateAll
\* frees the particles the frame left in flight
C30_WitnessLoad ==
  /\ call.op = "loadGameCanvas"
  /\ call.saved
  /\ budget.ticks < MaxTicks
  /\ ActiveParticles(call.prePs) # {}
  /\ ActiveParticles(particles) = {}
  /\ particles.inactiveSize = MAX_NUM_PARTICLES


(***************************************************************************)
(* SpecMagic: a game whose canvas the user has painted with GUNPOWDER next *)
(* to FIRE or with MYSTERY next to SAND or SALT, no particle in flight,    *)
(* the spigots set to size 0; animation frames that owe one updateGame     *)
(* follow, and the dispatch of one MYSTERY cell of a frame is observed on  *)
(* its own.                                                                *)
(***************************************************************************)
MaxMagicCells == 3

MagicScenarios ==
  {[palette |-> {FIRE, GUNPOWDER}, cells |-> 2],
   [palette |-> {MYSTERY, SAND}, cells |-> 2],
   [palette |-> {MYSTERY, SALT}, cells |-> MaxMagicCells]}

InitMagic ==
  \E sc \in MagicScenarios : \E d \in Shapes(sc.cells) :
    /\ width = d[1]
    /\ height = d[2]
    /\ gameImagedata32 \in [0..(d[1] * d[2] - 1) -> sc.palette]
    /\ saveGameImagedata32 = [c \in 0..(d[1] * d[2] - 1) |-> BACKGROUND]
    /\ gamestateSaved = FALSE
    /\ particles = initParticles
    /\ spigots = [k \in 1..NUM_SPIGOTS |->
                    [elem |-> SPIGOT_ELEMENTS[k], size |-> 0]]
    /\ threw = ""
    /\ nextElemIdx = NUM_ELEMENTS
    /\ call = NoCall
    /\ tickLog = NoLog
    /\ fpsSetting = DEFAULT_FPS
    /\ lastLoop = 0
    /\ frameDebt = 0
    /\ gridAtSave = [c \in 0..(d[1] * d[2] - 1) |-> BACKGROUND]
    /\ budget = [strokes |-> 0, ticks |-> MaxTicks, ops |-> 1, menu |-> {}]

RuleMystery == Dispatch("MYSTERY_ACTION", MYSTERY, MYSTERY_ACTION)

NextMagic == TracedTick \/ RuleMystery

SpecMagic == InitMagic /\ [][NextMagic]_vars

\* C31: no particle of type UNKNOWN_PARTICLE is active when a handler has
\* returned, the count of UNKNOWN_PARTICLE is 0, every action updateParticles
\* ran in the last frame was the action of a particle of another type, and
\* "Unknown particle" was never thrown: the particle GUNPOWDER_ACTION asks
\* for with the UNKNOWN type and the spokes MAGIC1_PARTICLE_INIT asks for
\* are MAGIC1 particles when the rule returns.
C31_NoUnknownParticleActive ==
  /\ \A id \in ActiveParticles(particles) :
       particles.p[id].type # UNKNOWN_PARTICLE
  /\ particles.particleCounts[UNKNOWN_PARTICLE] = 0
  /\ \A k \in 1..Len(EventsOf(tickLog, "action")) :
       EventsOf(tickLog, "action")[k][3] # UNKNOWN_PARTICLE
  /\ threw # "Unknown particle"

\* a frame after the one in which GUNPOWDER_ACTION set off a star: the
\* actions of the particle and of its spoke run, both MAGIC1
C31_Witness ==
  /\ call.op = "updateGame"
  /\ Cardinality(ActiveOfType(call.prePs, MAGIC1_PARTICLE)) = 2
  /\ LET a == EventsOf(tickLog, "action")
     IN /\ Len(a) = 2
        /\ a[1][3] = MAGIC1_PARTICLE
        /\ a[2][3] = MAGIC1_PARTICLE
  /\ threw = ""

\* the frame in which GUNPOWDER_ACTION sets off the star: two particles are
\* requested with the UNKNOWN type and both are MAGIC1 afterwards
C31_WitnessStar ==
  /\ call.op = "updateGame"
  /\ ActiveParticles(call.prePs) = {}
  /\ \E c \in Cells : call.pre[c] = GUNPOWDER
  /\ LET a == EventsOf(tickLog, "alloc")
     IN /\ Len(a) = 2
        /\ a[1][3] = UNKNOWN_PARTICLE
        /\ a[2][3] = UNKNOWN_PARTICLE
  /\ particles.particleCounts[MAGIC1_PARTICLE] = 2


\* C35: particleActive(t) is true exactly when an active particle has type
\* t; a MYSTERY cell dispatched while a MAGIC1 or MAGIC2 particle is active
\* becomes BACKGROUND, nothing else of the grid and nothing of the pool
\* changes; and at most one MAGIC2 particle is ever active.
C35_MagicIsExclusive ==
  /\ \A t \in ParticleTypes :
       particleActive(Mach, t) <=> ActiveOfType(particles, t) # {}
  /\ (/\ call.op = "MYSTERY_ACTION"
      /\ ActiveOfType(call.prePs, MAGIC1_PARTICLE)
           \cup ActiveOfType(call.prePs, MAGIC2_PARTICLE) # {})
       => /\ gameImagedata32 = [call.pre EXCEPT ![call.i] = BACKGROUND]
          /\ particles = call.prePs
  /\ particles.particleCounts[MAGIC2_PARTICLE] <= 1
  /\ Cardinality(ActiveOfType(particles, MAGIC2_PARTICLE)) <= 1

\* a frame on a canvas where two MYSTERY cells touch SALT: both are
\* dispatched, one MAGIC2 particle is requested and both cells are erased
C35_Witness ==
  /\ call.op = "updateGame"
  /\ ActiveParticles(call.prePs) = {}
  /\ Cardinality(Holding(call.pre, MYSTERY)) = 2
  /\ Cardinality(Holding(call.pre, SALT)) = 1
  /\ Holding(gameImagedata32, MYSTERY) = {}
  /\ Holding(gameImagedata32, SALT) # {}
  /\ Len(EventsOf(tickLog, "alloc")) = 1
  /\ particles.particleCounts[MAGIC2_PARTICLE] = 1
  /\ particles.activeSize = 1

\* a MYSTERY cell next to SALT dispatched while a MAGIC2 particle is active
C35_WitnessErased ==
  /\ call.op = "MYSTERY_ACTION"
  /\ ActiveOfType(call.prePs, MAGIC2_PARTICLE) # {}
  /\ call.prePs.inactiveSize > 0
  /\ \E c \in Cells : call.pre[c] = SALT /\ (c = call.i + 1 \/ c = call.i - 1)
  /\ gameImagedata32[call.i] = BACKGROUND
  /\ particles = call.prePs


(***************************************************************************)
(* SpecDrain: particles in flight over a canvas of BACKGROUND and WALL,    *)
(* the spigots set to size 0, and mainLoop running updateGame frame after  *)
(* frame for ever (weak fairness of Drain); a run ends only with an        *)
(* exception.  The particles of a run are of one type and start with the   *)
(* run, except those that live longest, which are met late in their life:  *)
(* LAVA particles after LateLavaAge frames over an empty canvas, and a      *)
(* tree that branches once after YoungTreeAge frames, before it has        *)
(* branched; the branch it grows then starts with its allocation.  The     *)
(* long-lived NITRO starts alone in the pool.                              *)
(***************************************************************************)
MaxDrainCells == 1
YoungTreeAge == 58
LateLavaAge == 230

DrainTypes == ParticleTypes \ {UNKNOWN_PARTICLE}

\* the pools of k TREE particles whose TREE_PARTICLE_INIT drew maxBranches
TreeRoots(k, maxBranches) ==
  {ps \in PoolsAfter(k, {TREE_PARTICLE}) :
     \A id \in ActiveParticles(ps) : ps.p[id].maxBranches = maxBranches}

\* pool ps after `it` frames in which each particle has branched `branches`
\* times and that have left no other particle active
Grown(ps, it, branches) ==
  [ps EXCEPT !.p = [id \in DOMAIN ps.p |->
                      IF ps.p[id].active
                        THEN [ps.p[id] EXCEPT !.actionIterations = it,
                                              !.branches = branches]
                        ELSE ps.p[id]]]

DrainPools(type) ==
  IF type = TREE_PARTICLE
    THEN {Grown(ps, YoungTreeAge, 0) : ps \in TreeRoots(1, 1)}
  ELSE IF type = LAVA_PARTICLE
    THEN {Grown(ps, LateLavaAge, 0)
            : ps \in UNION {PoolsAfter(k, {type})
                              : k \in 1..MAX_NUM_PARTICLES}}
  ELSE IF type = NITRO_PARTICLE
    THEN PoolsAfter(1, {type})
  ELSE UNION {PoolsAfter(k, {type}) : k \in 1..MAX_NUM_PARTICLES}

DrainPalette(type) ==
  IF type = LAVA_PARTICLE THEN {BACKGROUND} ELSE {BACKGROUND, WALL}

InitDrain ==
  \E type \in DrainTypes : \E d \in Shapes(MaxDrainCells) :
    /\ width = d[1]
    /\ height = d[2]
    /\ gameImagedata32 \in [0..(d[1] * d[2] - 1) -> DrainPalette(type)]
    /\ saveGameImagedata32 = [c \in 0..(d[1] * d[2] - 1) |-> BACKGROUND]
    /\ gamestateSaved = FALSE
    /\ particles \in DrainPools(type)
    /\ spigots = [k \in 1..NUM_SPIGOTS |->
                    [elem |-> SPIGOT_ELEMENTS[k], size |-> 0]]
    /\ threw = ""
    /\ nextElemIdx = NUM_ELEMENTS
    /\ call = NoCall
    /\ tickLog = NoLog
    /\ fpsSetting = DEFAULT_FPS
    /\ lastLoop = 0
    /\ frameDebt = 0
    /\ gridAtSave = [c \in 0..(d[1] * d[2] - 1) |-> BACKGROUND]
    /\ budget = [strokes |-> 0, ticks |-> 0, ops |-> 0, menu |-> {}]

\* the particles of pool pre that the frame which left pool post has
\* freed, each as its type, the number of the action that freed it and the
\* number of times it had branched
FreedBy(pre, post) ==
  {<<pre.p[id].type, pre.p[id].actionIterations + 1, pre.p[id].branches>>
     : id \in {a \in ActiveParticles(pre) :
                 ~post.p[a].active \/ post.p[a].actionIterations = 0}}

\* game.js:100-154: one more frame's updateGame
Drain ==
  /\ threw = ""
  /\ \E t \in updateGame(Mach, spigots) :
       /\ Commit(t)
       /\ call' = [op |-> "updateGame", nReq |-> t.nReq,
                   freed |-> FreedBy(particles, t.ps)]
  /\ tickLog' = NoLog
  /\ UNCHANGED <<dimVars, loopVars, saveVars, nextElemIdx, budget>>

NextDrain == Drain

SpecDrain == InitDrain /\ [][NextDrain]_vars /\ WF_vars(Drain)

\* particle id is not the particle it was: it is inactive, or it was
\* allocated after the frame's actions ran
FreedOrFresh(id) ==
  ~particles.p[id].active \/ particles.p[id].actionIterations = 0

\* C32: while updateGame keeps being invoked, every active particle is
\* eventually made inactive (the slot is free, or holds a particle allocated
\* since), and once no frame requests a particle any more the pool returns
\* to activeSize = 0.
C32_EveryParticleIsFreed ==
  /\ \A id \in ParticleIds : particles.p[id].active ~> FreedOrFresh(id)
  /\ <>[](call.op = "updateGame" /\ call.nReq = 0)
       => <>(particles.activeSize = 0)

\* a NUKE particle is freed by its fifth action
C32_Witness ==
  /\ call.op = "updateGame"
  /\ <<NUKE_PARTICLE, 5, 0>> \in call.freed
  /\ particles.activeSize = 0

\* a METHANE particle is freed by its third action
C32_WitnessMethane ==
  /\ call.op = "updateGame"
  /\ <<METHANE_PARTICLE, 3, 0>> \in call.freed

\* a TREE particle is freed by the action in which it branches for the last
\* time, and the branch it has just allocated is the one active particle
C32_WitnessTree ==
  /\ call.op = "updateGame"
  /\ \E it \in (YoungTreeAge + 1)..(YoungTreeAge + 2) :
       <<TREE_PARTICLE, it, 0>> \in call.freed
  /\ particles.activeSize = 1
  /\ \A id \in ActiveParticles(particles) :
       /\ particles.p[id].type = TREE_PARTICLE
       /\ particles.p[id].actionIterations = 0

(***************************************************************************)
(* C33                                                                     *)
(***************************************************************************)
\* C33: a mainLoop that runs while fpsSetting is 0 calls no updateGame, so
\* that it leaves the particles as they were.
C33_PausedLoopNeverUpdates ==
  (call.op = "mainLoop" /\ call.fps = 0)
    => Len(EventsOf(tickLog, "updateGame")) = 0

\* a mainLoop that runs while fpsSetting is 0 and finds a frame owed from
\* before the pause calls updateGame (game.js:243 adds nothing to the debt,
\* game.js:265-268 runs the update owed)
C33_Witness ==
  /\ call.op = "mainLoop"
  /\ ~call.returned
  /\ call.fps = 0
  /\ call.debt >= FrameUnit
  /\ Len(EventsOf(tickLog, "updateGame")) = 1
  /\ frameDebt = call.debt - FrameUnit

(***************************************************************************)
(* SpecAcid: updateGame dispatches one cell of ACID on a canvas the user   *)
(* has painted.                                                            *)
(***************************************************************************)
MaxAcidCells == 4

\* the elements painted in a scenario
AcidPalettes ==
  {{BACKGROUND, ACID, SAND, WALL}, {ACID, SAND, WATER, CRYO}}

InitAcid ==
  \E palette \in AcidPalettes :
    \E d \in Shapes(MaxAcidCells) : Scenario(d, palette, {}, 1)

\* game.js:126-131: updateGame finds ACID in cell i and runs its rule;
\* corroded is the cell the rule corroded, if any
RuleAcid ==
  /\ budget.ops > 0
  /\ \E i \in Cells :
       /\ gameImagedata32[i] = ACID
       /\ \E t \in ACID_ACTION(Mach, i % width, i \div width, i) :
            /\ RuleCommit(t)
            /\ call' = [op |-> "ACID_ACTION", x |-> i % width,
                        y |-> i \div width, i |-> i,
                        pre |-> gameImagedata32,
                        corroded |-> {e[2] : e \in Range(EventsOf(t.log,
                                                                  "corrode"))}]

NextAcid == RuleAcid

SpecAcid == InitAcid /\ [][NextAcid]_vars

\* elements.js:1095-1102: what the acid leaves alone
AcidProof == {ACID, BACKGROUND, WATER, SALT_WATER, ICE, CHILLED_ICE, CRYO}

\* the dispatch of ACID that has just run corroded cell n
Corroded(n) == call.op = "ACID_ACTION" /\ call.corroded = {n}

\* the grid differs from g in the cells of D at most
SameBut(g, D) == \A c \in Cells \ D : gameImagedata32[c] = g[c]

\* C34 as claimed: whenever ACID_ACTION corrodes the cell below, the acid's
\* own cell is BACKGROUND and the cell below is ACID afterwards; whenever it
\* corrodes a left, right or upper neighbour, that neighbour is BACKGROUND
\* and the acid's cell unchanged.
C34_CorrodingDownMovesAcid ==
  \A n \in Cells :
    Corroded(n) =>
      /\ call.pre[n] \notin AcidProof
      /\ IF n = call.i + width
           THEN /\ gameImagedata32[call.i] = BACKGROUND
                /\ gameImagedata32[n] = ACID
         ELSE /\ n \in {call.i - 1, call.i + 1, call.i - width}
              /\ gameImagedata32[n] = BACKGROUND
              /\ gameImagedata32[call.i] = ACID

\* C34: whenever ACID_ACTION corrodes the cell below, the acid's own cell is
\* BACKGROUND afterwards and the cell below is ACID, unless it was WALL, in
\* which case it is ACID or still WALL; whenever it corrodes a left, right
\* or upper neighbour, that neighbour is BACKGROUND and the acid's cell
\* unchanged.  One dispatch corrodes at most one cell, one that held none
\* of ACID, BACKGROUND, WATER, SALT_WATER, ICE, CHILLED_ICE and CRYO, and
\* changes no other cell.
C34_CorrodingDownMovesAcidButWall ==
  call.op = "ACID_ACTION" =>
    /\ Cardinality(call.corroded) <= 1
    /\ \A n \in call.corroded :
         /\ n \in Cells
         /\ call.pre[n] \notin AcidProof
         /\ SameBut(call.pre, {call.i, n})
         /\ IF n = call.i + width
              THEN /\ gameImagedata32[call.i] = BACKGROUND
                   /\ gameImagedata32[n] \in
                        (IF call.pre[n] = WALL THEN {ACID, WALL} ELSE {ACID})
            ELSE /\ n \in {call.i - 1, call.i + 1, call.i - width}
                 /\ n \div width = call.y \/ n % width = call.x
                 /\ gameImagedata32[n] = BACKGROUND
                 /\ gameImagedata32[call.i] = ACID

\* the acid corroded the SAND below it and took its place
C34_Witness ==
  /\ Corroded(call.i + width)
  /\ call.y < MAX_Y_IDX
  /\ call.pre[call.i + width] = SAND
  /\ gameImagedata32 = [call.pre EXCEPT ![call.i] = BACKGROUND,
                                        ![call.i + width] = ACID]

\* the acid corroded the WALL below it, which stands, and the acid is gone
C34_WitnessWallStands ==
  /\ Corroded(call.i + width)
  /\ call.y < MAX_Y_IDX
  /\ call.pre[call.i + width] = WALL
  /\ gameImagedata32 = [call.pre EXCEPT ![call.i] = BACKGROUND]

\* the acid corroded the neighbour above it and stays
C34_WitnessAbove ==
  /\ Corroded(call.i - width)
  /\ call.y > 0
  /\ gameImagedata32 = [call.pre EXCEPT ![call.i - width] = BACKGROUND]
  /\ gameImagedata32 # call.pre

(***************************************************************************)
(* SpecCanvas: the clear, save and load buttons on a painted canvas with   *)
(* particles in flight.                                                    *)
(***************************************************************************)
MaxCanvasCells == 2

CanvasPalette == {BACKGROUND, SAND, WALL}

CanvasTypes == {NITRO_PARTICLE, METHANE_PARTICLE}

InitCanvas ==
  \E d \in Shapes(MaxCanvasCells) :
    /\ width = d[1]
    /\ height = d[2]
    /\ gameImagedata32 \in [0..(d[1] * d[2] - 1) -> CanvasPalette]
    /\ saveGameImagedata32 = [c \in 0..(d[1] * d[2] - 1) |-> BACKGROUND]
    /\ gamestateSaved = FALSE
    /\ \E k \in 0..MAX_NUM_PARTICLES :
         particles \in PoolsAfter(k, CanvasTypes)
    /\ spigots = <<>>
    /\ threw = ""
    /\ nextElemIdx = NUM_ELEMENTS
    /\ call = NoCall
    /\ tickLog = NoLog
    /\ fpsSetting = DEFAULT_FPS
    /\ lastLoop = 0
    /\ frameDebt = 0
    /\ gridAtSave = [c \in 0..(d[1] * d[2] - 1) |-> BACKGROUND]
    /\ budget = [strokes |-> 0, ticks |-> 0, ops |-> 0,
                 clears |-> MaxCanvasOps, saves |-> MaxCanvasOps,
                 loads |-> MaxCanvasOps, menu |-> {}]

\* game.js:182-185: the clear button, with the grid and the pool it finds
ClearCanvas ==
  /\ threw = ""
  /\ budget.clears > 0
  /\ Commit(clearGameCanvas(Mach))
  /\ call' = [op |-> "clearGameCanvas", saved |-> gamestateSaved,
              pre |-> gameImagedata32, prePs |-> particles,
              preSave |-> saveGameImagedata32]
  /\ budget' = [budget EXCEPT !.clears = @ - 1]
  /\ tickLog' = NoLog
  /\ UNCHANGED <<dimVars, loopVars, saveVars, nextElemIdx>>

\* game.js:202-210: the load button, with the save buffer it finds
LoadCanvas ==
  /\ threw = ""
  /\ budget.loads > 0
  /\ Commit(loadGameCanvas(Mach, gamestateSaved, saveGameImagedata32))
  /\ call' = [op |-> "loadGameCanvas", saved |-> gamestateSaved,
              pre |-> gameImagedata32, prePs |-> particles,
              preSave |-> saveGameImagedata32]
  /\ budget' = [budget EXCEPT !.loads = @ - 1]
  /\ tickLog' = NoLog
  /\ UNCHANGED <<dimVars, loopVars, saveVars, nextElemIdx>>

NextCanvas == ClearCanvas \/ Save \/ LoadCanvas

SpecCanvas == InitCanvas /\ [][NextCanvas]_vars

\* C36: after clearGameCanvas every cell is BACKGROUND, activeSize is 0,
\* inactiveSize is MAX_NUM_PARTICLES, every count is 0 and every particle is
\* inactive and of type UNKNOWN_PARTICLE; the save buffer and gamestateSaved
\* are as before.
C36_ClearEmptiesCanvasAndPool ==
  call.op = "clearGameCanvas" =>
    /\ \A c \in Cells : gameImagedata32[c] = BACKGROUND
    /\ particles.activeSize = 0
    /\ particles.activeHead = NULL
    /\ particles.inactiveSize = MAX_NUM_PARTICLES
    /\ Len(InactiveList(particles)) = MAX_NUM_PARTICLES
    /\ \A type \in DOMAIN particles.particleCounts :
         particles.particleCounts[type] = 0
    /\ \A id \in ParticleIds :
         /\ ~particles.p[id].active
         /\ particles.p[id].type = UNKNOWN_PARTICLE
    /\ saveGameImagedata32 = call.preSave
    /\ gamestateSaved = call.saved

\* a clear of a painted canvas with a full pool and a saved state
C36_Witness ==
  /\ call.op = "clearGameCanvas"
  /\ call.saved
  /\ \E c \in Cells : call.pre[c] # BACKGROUND
  /\ \E c \in Cells : saveGameImagedata32[c] # BACKGROUND
  /\ call.prePs.activeSize = MAX_NUM_PARTICLES
  /\ particles.inactiveSize = MAX_NUM_PARTICLES
  /\ gameImagedata32 # call.pre

\* C37: loadGameCanvas while gamestateSaved is false changes nothing: the
\* grid, the particle pool and the save buffer are as before.
C37_LoadWithoutSaveIsNoOp ==
  (call.op = "loadGameCanvas" /\ ~call.saved) =>
    /\ gameImagedata32 = call.pre
    /\ particles = call.prePs
    /\ saveGameImagedata32 = call.preSave
    /\ ~gamestateSaved
    /\ threw = ""

\* a load with nothing saved, on a painted canvas with particles in flight
C37_Witness ==
  /\ call.op = "loadGameCanvas"
  /\ ~call.saved
  /\ \E c \in Cells : gameImagedata32[c] # saveGameImagedata32[c]
  /\ ActiveParticles(particles) # {}

(***************************************************************************)
(* C38                                                                     *)
(***************************************************************************)
\* the step is a call of reinitializeParticle, nothing thrown before it
ReinitStep ==
  /\ threw = ""
  /\ call'.op = "reinitializeParticle"
  /\ budget'.ops = budget.ops - 1

\* reinitializeParticle on an inactive particle throws and changes nothing
ReinitThrows ==
  ~particles.p[call'.particle].active =>
    /\ threw' = "Can only be used with active particles"
    /\ particles' = particles
    /\ gameImagedata32' = gameImagedata32

\* reinitializeParticle on an active particle leaves it on the active list,
\* with its new type and reinitialized set
ReinitInPlace ==
  particles.p[call'.particle].active =>
    /\ threw' = threw
    /\ particles'.p[call'.particle].active
    /\ call'.particle \in Range(ActiveList(particles'))
    /\ call'.particle \notin Range(InactiveList(particles'))
    /\ particles'.p[call'.particle].type = call'.type
    /\ particles'.p[call'.particle].reinitialized

\* C38 as claimed: reinitializeParticle on an inactive particle throws
\* before changing anything; on an active particle it leaves the particle on
\* the active list, activeSize and inactiveSize unchanged, and sets
\* reinitialized.
C38_ReinitKeepsSizes ==
  [][ReinitStep =>
       /\ ReinitThrows
       /\ ReinitInPlace
       /\ particles.p[call'.particle].active =>
            /\ particles'.activeSize = particles.activeSize
            /\ particles'.inactiveSize = particles.inactiveSize]_vars

\* C38: reinitializeParticle on an inactive particle throws before changing
\* anything; on an active particle it leaves the particle on the active
\* list with the new type and reinitialized set, and leaves activeSize and
\* inactiveSize unchanged unless the new type is MAGIC1_PARTICLE, whose init
\* moves as many particles as it allocates spokes from the inactive to the
\* active list.
C38_ReinitKeepsSizesButSpokes ==
  [][ReinitStep =>
       /\ ReinitThrows
       /\ ReinitInPlace
       /\ particles.p[call'.particle].active =>
            /\ particles'.activeSize + particles'.inactiveSize
                 = particles.activeSize + particles.inactiveSize
            /\ particles'.activeSize >= particles.activeSize
            /\ call'.type # MAGIC1_PARTICLE =>
                 /\ particles'.activeSize = particles.activeSize
                 /\ ActiveList(particles') = ActiveList(particles)
                 /\ InactiveList(particles') = InactiveList(particles)]_vars

\* an active particle has been reinitialized to another type, in place
C38_Witness ==
  /\ call.op = "reinitializeParticle"
  /\ threw = ""
  /\ call.type = NITRO_PARTICLE
  /\ particles.p[call.particle].active
  /\ particles.p[call.particle].reinitialized
  /\ particles.p[call.particle].type = NITRO_PARTICLE
  /\ particles.activeSize = 1

\* reinitializeParticle has thrown on an inactive particle
C38_WitnessThrows ==
  /\ call.op = "reinitializeParticle"
  /\ threw = "Can only be used with active particles"
  /\ ~particles.p[call.particle].active

\* the init of MAGIC1 has allocated a spoke for the reinitialized particle
C38_WitnessSpokes ==
  /\ call.op = "reinitializeParticle"
  /\ threw = ""
  /\ call.type = MAGIC1_PARTICLE
  /\ call.prevOp = "addActiveParticle"
  /\ particles.p[call.particle].reinitialized
  /\ particles.activeSize = MAX_NUM_PARTICLES
  /\ particles.particleCounts[MAGIC1_PARTICLE] = MAX_NUM_PARTICLES

(***************************************************************************)
(* C39                                                                     *)
(***************************************************************************)
\* C39: every dispatch elementActions[idx](x, Y, i) of an updateGame has
\* i = Y * width + x with 0 <= x < width and 0 <= Y < height, and idx is the
\* index decoded from the value read at gameImagedata32[i] when the cell
\* was visited: the dispatch follows the visit of the same cell at once and
\* carries its index, which is not that of BACKGROUND, and the first
\* dispatch of a frame that starts with no particle active and no spigot
\* pouring finds the value the frame started with.
C39_DispatchArguments ==
  call.op = "updateGame"
    => LET ds == EventsOf(tickLog, "dispatch")
       IN /\ \A n \in 1..Len(tickLog) :
               tickLog[n][1] = "dispatch" =>
                 LET i == tickLog[n][2]
                     x == tickLog[n][3]
                     Y == tickLog[n][4]
                     idx == tickLog[n][5]
                 IN /\ i = Y * width + x
                    /\ 0 <= x /\ x < width
                    /\ 0 <= Y /\ Y < height
                    /\ n > 1
                    /\ tickLog[n - 1] = <<"visit", i, x, Y, idx>>
                    /\ idx # ElemIdx(BACKGROUND)
                    /\ idx \in 0..(NUM_ELEMENTS - 1)
          /\ (Len(ds) > 0 /\ call.prePs.activeSize = 0 /\ width < 3)
               => ds[1][5] = ElemIdx(call.pre[ds[1][2]])

\* a frame on a canvas two cells wide and two high dispatches the cell
\* (0, 0), i = 0, after the cell (1, 1), i = 3
C39_Witness ==
  /\ call.op = "updateGame"
  /\ threw = ""
  /\ width = 2 /\ height = 2
  /\ LET ds == EventsOf(tickLog, "dispatch")
     IN /\ Len(ds) >= 2
        /\ ds[1][2] = 3 /\ ds[1][3] = 1 /\ ds[1][4] = 1
        /\ ds[Len(ds)][2] = 0 /\ ds[Len(ds)][3] = 0 /\ ds[Len(ds)][4] = 0
        /\ ds[1][5] = ElemIdx(call.pre[3])

(***************************************************************************)
(* SpecRand: part_002:28-48, the buffer of random bytes and its cursor.    *)
(* Math.random() fills the buffer once, when the script loads; the model   *)
(* takes a few buffers as samples and follows the calls of random(), the   *)
(* source's state being threaded through the record of the last call.      *)
(***************************************************************************)
\* part_002:28
num_rand_ints == 8192

\* the calls of random() followed: two rounds of the buffer and two more,
\* 2 * num_rand_ints + 2
MaxDraws == 16386

\* part_002:29-33: buffers that Math.floor(Math.random() * 100) can fill
RandBuffers ==
  <<[k \in 0..(num_rand_ints - 1) |-> (37 * k + 11) % 100],
    [k \in 0..(num_rand_ints - 1) |-> (k * k + k \div 7) % 100],
    [k \in 0..(num_rand_ints - 1) |-> IF k % 2 = 0 THEN 0 ELSE 99]>>

\* part_002:41-48 without `if (__next_rand === __num_rand_ints)
\* __next_rand = 0`
randomNoWrap(rand_ints, next_rand) ==
  [ret |-> IF next_rand \in DOMAIN rand_ints THEN rand_ints[next_rand]
           ELSE undefined,
   next_rand |-> next_rand + 1]

\* part_002:41-48: random() with the buffer and the cursor it finds; what
\* it returns and the cursor it leaves
randomNext(rand_ints, next_rand) ==
  [ret |-> IF next_rand \in DOMAIN rand_ints THEN rand_ints[next_rand]
           ELSE undefined,
   next_rand |-> IF next_rand + 1 = num_rand_ints THEN 0 ELSE next_rand + 1]

\* the script has loaded: the buffer is filled and the cursor is 0
InitRand ==
  /\ width = 1
  /\ height = 1
  /\ gameImagedata32 = [c \in {0} |-> <<0, 0>>]
  /\ saveGameImagedata32 = [c \in {0} |-> <<0, 0>>]
  /\ gamestateSaved = FALSE
  /\ particles = initParticles
  /\ spigots = <<>>
  /\ threw = ""
  /\ nextElemIdx = 0
  /\ tickLog = NoLog
  /\ fpsSetting = undefined
  /\ lastLoop = 0
  /\ frameDebt = 0
  /\ gridAtSave = [c \in {0} |-> <<0, 0>>]
  /\ budget = [strokes |-> 0, ticks |-> 0, ops |-> 0, menu |-> {}]
  /\ \E b \in DOMAIN RandBuffers :
       call = [op |-> "load", buffer |-> b, next_rand |-> 0, n |-> 0,
               at |-> 0, ret |-> 0]

\* a rule, a primitive or an init callback calls random()
Random ==
  /\ call.op \in {"load", "random"}
  /\ call.n < MaxDraws
  /\ LET o == randomNext(RandBuffers[call.buffer], call.next_rand)
     IN call' = [op |-> "random", buffer |-> call.buffer,
                 next_rand |-> o.next_rand, n |-> call.n + 1,
                 at |-> call.next_rand, ret |-> o.ret]
  /\ UNCHANGED <<dimVars, loopVars, gameImagedata32, saveVars, particles,
                 threw, nextElemIdx, tickLog, budget>>

NextRand == Random

SpecRand == InitRand /\ [][NextRand]_vars

\* C40: the cursor is always within 0..8191; each call of random() returns
\* the entry of the buffer at the cursor it finds, a value within 0..99,
\* and leaves the cursor one further, modulo 8192, so that the n-th call
\* returns the entry (n - 1) mod 8192 and the draws repeat with period 8192.
C40_CursorWrapsAtBufferEnd ==
  call.op \in {"load", "random"} =>
    /\ call.next_rand \in 0..(num_rand_ints - 1)
    /\ call.next_rand = call.n % num_rand_ints
    /\ call.op = "random" =>
         /\ call.at \in DOMAIN RandBuffers[call.buffer]
         /\ call.ret = RandBuffers[call.buffer][call.at]
         /\ call.ret \in RandomValues
         /\ call.next_rand = (call.at + 1) % num_rand_ints
         /\ call.at = (call.n - 1) % num_rand_ints
         /\ call.n > num_rand_ints =>
              call.ret
                = RandBuffers[call.buffer][(call.n - 1 - num_rand_ints)
                                             % num_rand_ints]

\* the call that reads the last entry of the buffer leaves the cursor at 0
C40_Witness ==
  /\ call.op = "random"
  /\ call.n = num_rand_ints
  /\ call.at = num_rand_ints - 1
  /\ call.next_rand = 0

\* the first call of the third round returns what the first call returned
C40_WitnessPeriod ==
  /\ call.op = "random"
  /\ call.n = 2 * num_rand_ints + 1
  /\ call.at = 0
  /\ call.ret = RandBuffers[call.buffer][0]

=========================================================================
